---- MODULE Spec2Model ----
(***************************************************************************)
(* Model of the EPICS "execute" device support core: the Command state     *)
(* container (Command.h / Command.cpp), its run() launcher, the pipe       *)
(* helpers AccumulatingPipe / PreFilledPipe and the ThreadPoolExecutor.    *)
(*                                                                         *)
(* Spec        : several caller threads operating on one Command object;   *)
(*               every critical section is an acquire step followed by a   *)
(*               body step that releases the mutex, unlocked code is one   *)
(*               step per shared memory access; the child and the pool     *)
(*               tasks of a run are summarised by their results.           *)
(* RunSpec     : one call of run() by a single caller, with the child, the *)
(*               pipes, the pool tasks and the pool threads as concurrent  *)
(*               processes, one step per system call.                      *)
(* FairRunSpec : RunSpec in wait mode under weak fairness of the threads,  *)
(*               the child and the system calls that can complete.         *)
(***************************************************************************)
EXTENDS Integers, Sequences, FiniteSets, TLC

(***************************************************************************)
(* Bounds of the model.                                                    *)
(***************************************************************************)
NumThreads == 2
MaxCalls == 3
PipeBufSize == 1
MaxFailures == 1
MaxEnviron == 2
MaxTasks == 3
OpenMax == 10

(***************************************************************************)
(* Program constants.                                                      *)
(***************************************************************************)
exitCodeKilledBySignal == -1
exitCodeSystemError == -2

Threads == 1..NumThreads
NoThread == 0

commandPath == "/bin/prog"
ArgIndexes == {0, 2}
ArgValues == {"a", "b"}
Capacities == {0, 1, 2}
EnvNames == {<<"A">>}
EnvValues == {<<"1">>}
StdinPayloads == {<<>>, <<5>>}
ChildOutputs == {<<>>, <<7, 8, 9>>}
ExitStatuses == {0, 255}
Signals == {9}

\* The ambient environment of the hosting process (extern char **environ):
\* NAME=VALUE strings, as sequences of characters; the last entry has no '='.
environ == << <<"A", "=", "0">>, <<"B", "=", "0">>, <<"J">> >>

Max(a, b) == IF a >= b THEN a ELSE b
Min(a, b) == IF a <= b THEN a ELSE b
Take(s, n) == SubSeq(s, 1, Min(n, Len(s)))

(***************************************************************************)
(* Pure helpers of Command.cpp.                                            *)
(***************************************************************************)
\* Mutant: the vector is one entry short.
prepareArgumentsShort(args) ==
  LET maxIndex == CHOOSE i \in DOMAIN args : \A j \in DOMAIN args : j <= i
  IN  [i \in 0..(maxIndex - 1) |-> IF i \in DOMAIN args THEN args[i] ELSE ""]

\* prepareArguments: a vector indexed 0..maxIndex, empty string for the
\* indices the map does not define.
prepareArguments(args) ==
  LET maxIndex == CHOOSE i \in DOMAIN args : \A j \in DOMAIN args : j <= i
  IN  [i \in 0..maxIndex |-> IF i \in DOMAIN args THEN args[i] ELSE ""]

\* std::string::find_first_of(c): the first position (1-based here) of c in
\* s, 0 for npos.
find_first_of(s, c) ==
  IF \E i \in 1..Len(s) : s[i] = c
    THEN CHOOSE i \in 1..Len(s) : s[i] = c /\ \A j \in 1..(i - 1) : s[j] # c
    ELSE 0

CharCode(c) ==
  CASE c = "0" -> 48 [] c = "1" -> 49 [] c = "2" -> 50 [] c = "=" -> 61
    [] c = "A" -> 65 [] c = "B" -> 66 [] c = "J" -> 74 [] OTHER -> 0

\* operator< of std::string (lexicographic), the order of std::map keys.
RECURSIVE StrLess(_, _)
StrLess(a, b) ==
  IF b = <<>> THEN FALSE
  ELSE IF a = <<>> THEN TRUE
  ELSE IF CharCode(Head(a)) # CharCode(Head(b))
         THEN CharCode(Head(a)) < CharCode(Head(b))
  ELSE StrLess(Tail(a), Tail(b))

\* The keys of a std::map<std::string, ...> in iteration order.
RECURSIVE SortedKeys(_)
SortedKeys(S) ==
  IF S = {} THEN <<>>
  ELSE LET m == CHOOSE x \in S : \A y \in S \ {x} : StrLess(x, y)
       IN  <<m>> \o SortedKeys(S \ {m})

\* The first loop of prepareEnvironment: the ambient entries that have an
\* equals sign and whose name is not overridden.
RECURSIVE keptEnviron(_, _)
keptEnviron(env, envVars) ==
  IF env = <<>> THEN <<>>
  ELSE LET envString == Head(env)
           eqIndex == find_first_of(envString, "=")
           name == SubSeq(envString, 1, eqIndex - 1)
       IN  (IF eqIndex # 0 /\ name \notin DOMAIN envVars
              THEN <<envString>> ELSE <<>>)
           \o keptEnviron(Tail(env), envVars)

\* The second loop of prepareEnvironment: NAME=VALUE for every map entry.
RECURSIVE envEntries(_, _)
envEntries(keys, envVars) ==
  IF keys = <<>> THEN <<>>
  ELSE <<Head(keys) \o <<"=">> \o envVars[Head(keys)]>>
       \o envEntries(Tail(keys), envVars)

\* Mutant: the ambient entries are copied without looking at the map.
prepareEnvironmentAppendOnly(env, envVars) ==
  env \o envEntries(SortedKeys(DOMAIN envVars), envVars)

\* prepareEnvironment, with the value of environ as a parameter.
prepareEnvironmentOf(env, envVars) ==
  keptEnviron(env, envVars) \o envEntries(SortedKeys(DOMAIN envVars), envVars)

prepareEnvironment(envVars) == prepareEnvironmentOf(environ, envVars)

(***************************************************************************)
(* waitpid status words and the <sys/wait.h> macros.                       *)
(***************************************************************************)
StatusExited(k) == (k % 256) * 256
StatusSignaled(sig) == sig
WIFEXITED(status) == status % 128 = 0
WEXITSTATUS(status) == (status \div 256) % 256
WIFSIGNALED(status) == status % 128 # 0 /\ status % 128 # 127

VARIABLES
  wait, arguments, envVars, stdinBuffer, stderrCapacity, stdoutCapacity,
  exitCode, stderrBuffer, stdoutBuffer, running, mutex,
  pc, call, snap, updArgs, pending, lastReturn, calls,
  maxReqErr, maxReqOut

cmdVars == <<wait, arguments, envVars, stdinBuffer, stderrCapacity,
             stdoutCapacity, exitCode, stderrBuffer, stdoutBuffer, running,
             mutex>>
thrVars == <<pc, call, snap, updArgs, pending, lastReturn, calls,
             maxReqErr, maxReqOut>>

NoCall == [op |-> "none"]
NoSnap == [taken |-> FALSE]
NoUpd == [set |-> FALSE]

(***************************************************************************)
(* The state of one call of run() in detail: the position of the caller,   *)
(* the child process, the three pipes, the three pool tasks with their     *)
(* futures, and the shared state of the ThreadPoolExecutor.  Pool threads  *)
(* are anonymous: threadsAtLoop counts the threads at the head of the loop *)
(* of processTasks, threadsWaiting those blocked in wakeUpCv.wait; a       *)
(* thread that runs a task is represented by the task.                     *)
(***************************************************************************)
VARIABLES
  rpc, child, pipes, task, future, failuresLeft,
  pendingTasks, idleThreads, maxIdleThreads, shutdown,
  threadsAtLoop, threadsWaiting

poolVars == <<pendingTasks, idleThreads, maxIdleThreads, shutdown,
              threadsAtLoop, threadsWaiting>>
ioVars == <<rpc, child, pipes, task, future, failuresLeft, poolVars>>

(***************************************************************************)
(* The surroundings of a Command: the descriptor table of the process      *)
(* under study with the number of close() calls made on each descriptor,   *)
(* the map of the CommandRegistry, and a run record with the members of    *)
(* its RunDeviceSupport.  asyncExecutionFuture is the pool task whose      *)
(* future the member holds (0: no shared state); processCallback counts    *)
(* the requests of callbackRequestProcessCallback not yet served.          *)
(***************************************************************************)
VARIABLES
  fdTable, closeCalls, commands,
  record, asyncExecutionFuture, runComplete, processCallback

hostVars == <<fdTable, closeCalls, commands, record, asyncExecutionFuture,
              runComplete, processCallback>>
vars == <<cmdVars, thrVars, ioVars, hostVars>>

NoRecord == [val |-> 0, rval |-> 0, pact |-> FALSE, sevr |-> "NO_ALARM",
             waitOption |-> FALSE]

\* Nothing outside the Command is in use.
HostIdle ==
  /\ fdTable = <<>>
  /\ closeCalls = <<>>
  /\ commands = <<>>
  /\ record = NoRecord
  /\ asyncExecutionFuture = 0
  /\ runComplete = FALSE
  /\ processCallback = 0


(***************************************************************************)
(* AccumulatingPipe::readData as a function of what the kernel delivers:   *)
(* the byte stream s followed by end-of-file, at most k bytes per read(),  *)
(* the read() number n+1 failing (n < 0: no read fails).                   *)
(***************************************************************************)
tempBufferSize == 1024

RECURSIVE readLoop(_, _, _, _, _, _)
readLoop(capacity, rest, buffer, k, n, draining) ==
  IF n = 0 THEN [ok |-> FALSE, buffer |-> <<>>]
  ELSE
    LET count == IF draining THEN tempBufferSize ELSE capacity - Len(buffer)
        bytesRead == Min(Min(count, k), Len(rest))
        stored == IF draining THEN buffer
                  ELSE buffer \o SubSeq(rest, 1, bytesRead)
    IN  IF bytesRead = 0 THEN [ok |-> TRUE, buffer |-> buffer]
        ELSE readLoop(capacity, SubSeq(rest, bytesRead + 1, Len(rest)), stored,
                      k, IF n > 0 THEN n - 1 ELSE n,
                      draining \/ Len(stored) = capacity)

readData(capacity, s, k, n) == readLoop(capacity, s, <<>>, k, n, FALSE)

\* AccumulatingPipe::readDataAsync followed by future.get(): with capacity 0
\* there is no pipe and the future holds an empty vector.
readDataAsync(capacity, s, k, n) ==
  IF capacity = 0 THEN [ok |-> TRUE, buffer |-> <<>>]
  ELSE readData(capacity, s, k, n)

(***************************************************************************)
(* Values of the detailed state.                                           *)
(***************************************************************************)
Streams == {"stderr", "stdout"}
Tasks == {"stderr", "stdout", "stdin"}

\* What the child intends to write to each stream, and the payload for its
\* standard input.
\* The child writes more than the largest capacity plus what fits into a
\* pipe; the payload for its standard input does not fit into a pipe.
RunCapacities == {0, 2}
MaxCapacity == CHOOSE c \in RunCapacities : \A d \in RunCapacities : d <= c
MaxOutput == MaxCapacity + PipeBufSize + 1
MaxStdin == PipeBufSize + 1
OutputLengths == {0, 1, MaxOutput}
StdinBuffers == {<<>>, [i \in 1..MaxStdin |-> 50 + i]}

\* The i-th byte the child writes to a stream.
ChildByte(stream, i) == IF stream = "stdout" THEN i ELSE 100 + i
ChildBytes(stream, from, to) == [i \in 1..(to - from) |-> ChildByte(stream, from + i)]

\* ThreadPoolExecutor sharedExecutor(4)
sharedExecutorIdleThreads == 4

\* A pipe: the bytes in the kernel buffer and the processes that hold its
\* write end (w) and its read end (r) open.
NoPipe == [buf |-> <<>>, w |-> {}, r |-> {}]
NoChild == [state |-> "none", execOk |-> TRUE, execveStatus |-> 0,
            status |-> 0, how |-> "none", code |-> 0,
            toWrite |-> [s \in Streams |-> 0],
            written |-> [s \in Streams |-> 0], cur |-> "exit",
            held |-> <<>>]
NoTask == [state |-> "none", at |-> "none", total |-> 0, buffer |-> <<>>,
           failed |-> FALSE]
NoFuture == [state |-> "none", value |-> <<>>]

RunIdle ==
  /\ HostIdle
  /\ rpc = "idle"
  /\ child = NoChild
  /\ pipes = [p \in Tasks |-> NoPipe]
  /\ task = [id \in Tasks |-> NoTask]
  /\ future = [id \in Tasks |-> NoFuture]
  /\ pendingTasks = <<>>
  /\ idleThreads = 0
  /\ maxIdleThreads = sharedExecutorIdleThreads
  /\ shutdown = FALSE
  /\ threadsAtLoop = 0
  /\ threadsWaiting = 0

(***************************************************************************)
(* The Command object and its callers.                                     *)
(***************************************************************************)
Init ==
  /\ wait \in BOOLEAN
  /\ arguments = (0 :> commandPath)
  /\ envVars = <<>>
  /\ stdinBuffer = <<>>
  /\ stderrCapacity = 0
  /\ stdoutCapacity = 0
  /\ exitCode = 0
  /\ stderrBuffer = <<>>
  /\ stdoutBuffer = <<>>
  /\ running = FALSE
  /\ mutex = NoThread
  /\ pc = [t \in Threads |-> "idle"]
  /\ call = [t \in Threads |-> NoCall]
  /\ snap = [t \in Threads |-> NoSnap]
  /\ updArgs = [t \in Threads |-> NoUpd]
  /\ pending = [t \in Threads |-> "none"]
  /\ lastReturn = [op |-> "none", res |-> "none"]
  /\ calls = 0
  /\ maxReqErr = 0
  /\ maxReqOut = 0
  /\ RunIdle
  /\ failuresLeft = MaxFailures

\* Callers are anonymous: a new call is made by the lowest-numbered thread
\* that is not inside a call.
CanCall(t) ==
  /\ pc[t] = "idle"
  /\ \A u \in Threads : u < t => pc[u] # "idle"
  /\ calls < MaxCalls

\* A call that takes the mutex first: the caller blocks until it is free.
Enter(t, c) ==
  /\ CanCall(t)
  /\ mutex = NoThread
  /\ mutex' = t
  /\ pc' = [pc EXCEPT ![t] = c.op]
  /\ call' = [call EXCEPT ![t] = c]
  /\ calls' = calls + 1

\* The end of a call: the lock_guard releases the mutex.
Leave(t, res) ==
  /\ mutex' = NoThread
  /\ pc' = [pc EXCEPT ![t] = "idle"]
  /\ lastReturn' = [op |-> call[t].op, res |-> res]
  /\ call' = [call EXCEPT ![t] = NoCall]

\* Mutant: setArgument accepts the index 0.
setArgumentCallAcceptZero(t, indexes) ==
  \E index \in indexes, value \in ArgValues :
    /\ IF index < 0
         THEN /\ CanCall(t)
              /\ calls' = calls + 1
              /\ lastReturn' = [op |-> "setArgument",
                                res |-> "invalid_argument"]
              /\ UNCHANGED <<cmdVars, pc, call, snap, updArgs, pending,
                             maxReqErr, maxReqOut>>
         ELSE /\ Enter(t, [op |-> "setArgument", index |-> index,
                           value |-> value])
              /\ UNCHANGED <<wait, arguments, envVars, stdinBuffer,
                             stderrCapacity, stdoutCapacity, exitCode,
                             stderrBuffer, stdoutBuffer, running, snap,
                             updArgs, pending, lastReturn, maxReqErr,
                             maxReqOut>>
    /\ UNCHANGED <<ioVars, hostVars>>

\* setArgument up to the lock_guard, for a caller that passes one of the
\* indexes given.
setArgumentCallOf(t, indexes) ==
  \E index \in indexes, value \in ArgValues :
    /\ IF index <= 0
         THEN /\ CanCall(t)
              /\ calls' = calls + 1
              /\ lastReturn' = [op |-> "setArgument",
                                res |-> "invalid_argument"]
              /\ UNCHANGED <<cmdVars, pc, call, snap, updArgs, pending,
                             maxReqErr, maxReqOut>>
         ELSE /\ Enter(t, [op |-> "setArgument", index |-> index,
                           value |-> value])
              /\ UNCHANGED <<wait, arguments, envVars, stdinBuffer,
                             stderrCapacity, stdoutCapacity, exitCode,
                             stderrBuffer, stdoutBuffer, running, snap,
                             updArgs, pending, lastReturn, maxReqErr,
                             maxReqOut>>
    /\ UNCHANGED <<ioVars, hostVars>>

setArgumentCall(t) == setArgumentCallOf(t, ArgIndexes)

setArgument(t) ==
  /\ pc[t] = "setArgument"
  /\ arguments' = (call[t].index :> call[t].value) @@ arguments
  /\ Leave(t, "ok")
  /\ UNCHANGED <<wait, envVars, stdinBuffer, stderrCapacity, stdoutCapacity,
                 exitCode, stderrBuffer, stdoutBuffer, running, snap, updArgs,
                 pending, calls, maxReqErr, maxReqOut>>
  /\ UNCHANGED <<ioVars, hostVars>>

setEnvVarCallOf(t, names, values) ==
  \E name \in names, value \in values :
    /\ Enter(t, [op |-> "setEnvVar", name |-> name, value |-> value])
    /\ UNCHANGED <<wait, arguments, envVars, stdinBuffer, stderrCapacity,
                   stdoutCapacity, exitCode, stderrBuffer, stdoutBuffer,
                   running, snap, updArgs, pending, lastReturn,
                   maxReqErr, maxReqOut>>
    /\ UNCHANGED <<ioVars, hostVars>>

setEnvVarCall(t) == setEnvVarCallOf(t, EnvNames, EnvValues)

setEnvVar(t) ==
  /\ pc[t] = "setEnvVar"
  /\ envVars' = (call[t].name :> call[t].value) @@ envVars
  /\ Leave(t, "ok")
  /\ UNCHANGED <<wait, arguments, stdinBuffer, stderrCapacity, stdoutCapacity,
                 exitCode, stderrBuffer, stdoutBuffer, running, snap, updArgs,
                 pending, calls, maxReqErr, maxReqOut>>
  /\ UNCHANGED <<ioVars, hostVars>>

setStdInBufferCall(t) ==
  \E buffer \in StdinPayloads :
    /\ Enter(t, [op |-> "setStdInBuffer", buffer |-> buffer])
    /\ UNCHANGED <<wait, arguments, envVars, stdinBuffer, stderrCapacity,
                   stdoutCapacity, exitCode, stderrBuffer, stdoutBuffer,
                   running, snap, updArgs, pending, lastReturn,
                   maxReqErr, maxReqOut>>
    /\ UNCHANGED <<ioVars, hostVars>>

setStdInBuffer(t) ==
  /\ pc[t] = "setStdInBuffer"
  /\ stdinBuffer' = call[t].buffer
  /\ Leave(t, "ok")
  /\ UNCHANGED <<wait, arguments, envVars, stderrCapacity, stdoutCapacity,
                 exitCode, stderrBuffer, stdoutBuffer, running, snap, updArgs,
                 pending, calls, maxReqErr, maxReqOut>>
  /\ UNCHANGED <<ioVars, hostVars>>

ensureStdErrCapacityCall(t) ==
  \E capacity \in Capacities :
    /\ Enter(t, [op |-> "ensureStdErrCapacity", capacity |-> capacity])
    /\ UNCHANGED <<wait, arguments, envVars, stdinBuffer, stderrCapacity,
                   stdoutCapacity, exitCode, stderrBuffer, stdoutBuffer,
                   running, snap, updArgs, pending, lastReturn,
                   maxReqErr, maxReqOut>>
    /\ UNCHANGED <<ioVars, hostVars>>

\* Mutant: the wait flag is not checked.
ensureStdErrCapacityUnchecked(t) ==
  /\ pc[t] = "ensureStdErrCapacity"
  /\ stderrCapacity' = Max(stderrCapacity, call[t].capacity)
  /\ maxReqErr' = Max(maxReqErr, call[t].capacity)
  /\ lastReturn' = [op |-> call[t].op, res |-> "ok",
                    capacity |-> call[t].capacity]
  /\ mutex' = NoThread
  /\ pc' = [pc EXCEPT ![t] = "idle"]
  /\ call' = [call EXCEPT ![t] = NoCall]
  /\ UNCHANGED <<wait, arguments, envVars, stdinBuffer, stdoutCapacity,
                 exitCode, stderrBuffer, stdoutBuffer, running, snap, updArgs,
                 pending, calls, maxReqOut>>
  /\ UNCHANGED <<ioVars, hostVars>>

ensureStdErrCapacity(t) ==
  /\ pc[t] = "ensureStdErrCapacity"
  /\ IF call[t].capacity # 0 /\ ~wait
       THEN /\ lastReturn' = [op |-> call[t].op, res |-> "invalid_argument",
                              capacity |-> call[t].capacity]
            /\ UNCHANGED <<stderrCapacity, maxReqErr>>
       ELSE /\ stderrCapacity' = Max(stderrCapacity, call[t].capacity)
            /\ maxReqErr' = Max(maxReqErr, call[t].capacity)
            /\ lastReturn' = [op |-> call[t].op, res |-> "ok",
                              capacity |-> call[t].capacity]
  /\ mutex' = NoThread
  /\ pc' = [pc EXCEPT ![t] = "idle"]
  /\ call' = [call EXCEPT ![t] = NoCall]
  /\ UNCHANGED <<wait, arguments, envVars, stdinBuffer, stdoutCapacity,
                 exitCode, stderrBuffer, stdoutBuffer, running, snap, updArgs,
                 pending, calls, maxReqOut>>
  /\ UNCHANGED <<ioVars, hostVars>>

\* ensureStdOutCapacity takes no lock.  Its first step is the check of the
\* wait flag and the read of stdoutCapacity by std::max.
ensureStdOutCapacityCall(t) ==
  \E capacity \in Capacities :
    /\ CanCall(t)
    /\ calls' = calls + 1
    /\ IF capacity # 0 /\ ~wait
         THEN /\ lastReturn' = [op |-> "ensureStdOutCapacity",
                                res |-> "invalid_argument",
                                capacity |-> capacity]
              /\ UNCHANGED <<pc, call>>
         ELSE /\ pc' = [pc EXCEPT ![t] = "ensureStdOutCapacity"]
              /\ call' = [call EXCEPT ![t] = [op |-> "ensureStdOutCapacity",
                            capacity |-> capacity, read |-> stdoutCapacity]]
              /\ UNCHANGED lastReturn
    /\ UNCHANGED <<cmdVars, snap, updArgs, pending, maxReqErr, maxReqOut>>
    /\ UNCHANGED <<ioVars, hostVars>>

\* The second step is the store.  When the member is the maximum, std::max
\* returns a reference to it and the build either stores the value it read
\* or reads the member again (a self-assignment).
ensureStdOutCapacity(t) ==
  /\ pc[t] = "ensureStdOutCapacity"
  /\ \/ stdoutCapacity' = Max(call[t].read, call[t].capacity)
     \/ /\ call[t].read >= call[t].capacity
        /\ stdoutCapacity' = stdoutCapacity
  /\ maxReqOut' = Max(maxReqOut, call[t].capacity)
  /\ pc' = [pc EXCEPT ![t] = "idle"]
  /\ lastReturn' = [op |-> call[t].op, res |-> "ok",
                    capacity |-> call[t].capacity]
  /\ call' = [call EXCEPT ![t] = NoCall]
  /\ UNCHANGED <<wait, arguments, envVars, stdinBuffer, stderrCapacity,
                 exitCode, stderrBuffer, stdoutBuffer, running, mutex, snap,
                 updArgs, pending, calls, maxReqErr>>
  /\ UNCHANGED <<ioVars, hostVars>>

getterCall(t) ==
  \E op \in {"getExitCode", "getStdErrBuffer", "getStdOutBuffer"} :
    /\ Enter(t, [op |-> op])
    /\ UNCHANGED <<wait, arguments, envVars, stdinBuffer, stderrCapacity,
                   stdoutCapacity, exitCode, stderrBuffer, stdoutBuffer,
                   running, snap, updArgs, pending, lastReturn,
                   maxReqErr, maxReqOut>>
    /\ UNCHANGED <<ioVars, hostVars>>

getter(t) ==
  /\ pc[t] \in {"getExitCode", "getStdErrBuffer", "getStdOutBuffer"}
  /\ mutex' = NoThread
  /\ pc' = [pc EXCEPT ![t] = "idle"]
  /\ lastReturn' = [op |-> call[t].op, res |-> "ok",
        value |-> CASE call[t].op = "getExitCode" -> exitCode
                    [] call[t].op = "getStdErrBuffer" -> stderrBuffer
                    [] OTHER -> stdoutBuffer]
  /\ call' = [call EXCEPT ![t] = NoCall]
  /\ UNCHANGED <<wait, arguments, envVars, stdinBuffer, stderrCapacity,
                 stdoutCapacity, exitCode, stderrBuffer, stdoutBuffer, running,
                 snap, updArgs, pending, calls, maxReqErr, maxReqOut>>
  /\ UNCHANGED <<ioVars, hostVars>>


(***************************************************************************)
(* Command::run.                                                           *)
(***************************************************************************)
\* The values run() copies under the state lock.
Snapshot(args, env, stdin, errCap, outCap) ==
  [taken |-> TRUE,
   cmdArgs |-> prepareArguments(args),
   cmdEnv |-> prepareEnvironment(env),
   stdinBuffer |-> stdin,
   stderrCapacity |-> errCap,
   stdoutCapacity |-> outCap]

\* Mutant: a child killed by a signal is recorded as a system error.
ExitCodeOfSignalAsError(childStatus) ==
  IF WIFEXITED(childStatus) THEN WEXITSTATUS(childStatus)
  ELSE exitCodeSystemError

\* Mutant: the status word is always read as an exit status.
ExitCodeOfExitStatus(childStatus) == WEXITSTATUS(childStatus)

\* The exit code run() records for a child that waitpid reported.
ExitCodeOf(childStatus) ==
  IF WIFEXITED(childStatus) THEN WEXITSTATUS(childStatus)
  ELSE IF WIFSIGNALED(childStatus) THEN exitCodeKilledBySignal
  ELSE exitCodeSystemError

\* run() is entered; with the wait flag the RunningFlagGuard constructor
\* takes the mutex first.
runCall(t) ==
  /\ CanCall(t)
  /\ calls' = calls + 1
  /\ call' = [call EXCEPT ![t] = [op |-> "run", doneErr |-> maxReqErr,
                                  doneOut |-> maxReqOut]]
  /\ IF wait
       THEN /\ mutex = NoThread
            /\ mutex' = t
            /\ pc' = [pc EXCEPT ![t] = "guard"]
       ELSE /\ pc' = [pc EXCEPT ![t] = "snap_lock"]
            /\ UNCHANGED mutex
  /\ pending' = [pending EXCEPT ![t] = "none"]
  /\ UNCHANGED <<wait, arguments, envVars, stdinBuffer, stderrCapacity,
                 stdoutCapacity, exitCode, stderrBuffer, stdoutBuffer, running,
                 snap, updArgs, lastReturn, maxReqErr, maxReqOut>>
  /\ UNCHANGED <<ioVars, hostVars>>

\* Mutant: the constructor sets the flag without testing it.
RunningFlagGuardNoCheck(t) ==
  /\ pc[t] = "guard"
  /\ running' = TRUE
  /\ mutex' = NoThread
  /\ pc' = [pc EXCEPT ![t] = "snap_lock"]
  /\ UNCHANGED <<wait, arguments, envVars, stdinBuffer, stderrCapacity,
                 stdoutCapacity, exitCode, stderrBuffer, stdoutBuffer, snap,
                 updArgs, pending, calls, maxReqErr, maxReqOut, call,
                 lastReturn>>
  /\ UNCHANGED <<ioVars, hostVars>>

\* Mutant: the rejected call releases the flag as if its guard had been
\* constructed.
RunningFlagGuardThrowClears(t) ==
  /\ pc[t] = "guard"
  /\ IF running
       THEN /\ Leave(t, "invalid_argument")
            /\ running' = FALSE
       ELSE /\ running' = TRUE
            /\ mutex' = NoThread
            /\ pc' = [pc EXCEPT ![t] = "snap_lock"]
            /\ UNCHANGED <<call, lastReturn>>
  /\ UNCHANGED <<wait, arguments, envVars, stdinBuffer, stderrCapacity,
                 stdoutCapacity, exitCode, stderrBuffer, stdoutBuffer, snap,
                 updArgs, pending, calls, maxReqErr, maxReqOut>>
  /\ UNCHANGED <<ioVars, hostVars>>

\* RunningFlagGuard::RunningFlagGuard, under the mutex.  When it throws, the
\* guard object was never constructed and its destructor does not run.
RunningFlagGuard(t) ==
  /\ pc[t] = "guard"
  /\ IF running
       THEN /\ Leave(t, "invalid_argument")
            /\ UNCHANGED running
       ELSE /\ running' = TRUE
            /\ mutex' = NoThread
            /\ pc' = [pc EXCEPT ![t] = "snap_lock"]
            /\ UNCHANGED <<call, lastReturn>>
  /\ UNCHANGED <<wait, arguments, envVars, stdinBuffer, stderrCapacity,
                 stdoutCapacity, exitCode, stderrBuffer, stdoutBuffer, snap,
                 updArgs, pending, calls, maxReqErr, maxReqOut>>
  /\ UNCHANGED <<ioVars, hostVars>>

\* std::lock_guard constructors inside run(): the snapshot block,
\* updateResultState and the destructor of the guard.
LockPc == [snap_lock |-> "snap", upd_lock |-> "upd", rel_lock |-> "rel"]

Acquire(t) ==
  /\ pc[t] \in DOMAIN LockPc
  /\ mutex = NoThread
  /\ mutex' = t
  /\ pc' = [pc EXCEPT ![t] = LockPc[pc[t]]]
  /\ UNCHANGED <<wait, arguments, envVars, stdinBuffer, stderrCapacity,
                 stdoutCapacity, exitCode, stderrBuffer, stdoutBuffer, running,
                 call, snap, updArgs, pending, lastReturn, calls,
                 maxReqErr, maxReqOut>>
  /\ UNCHANGED <<ioVars, hostVars>>

\* The snapshot block of run().
runSnapshot(t) ==
  /\ pc[t] = "snap"
  /\ snap' = [snap EXCEPT ![t] = Snapshot(arguments, envVars, stdinBuffer,
                                          stderrCapacity, stdoutCapacity)]
  /\ mutex' = NoThread
  /\ pc' = [pc EXCEPT ![t] = "prefork"]
  /\ UNCHANGED <<wait, arguments, envVars, stdinBuffer, stderrCapacity,
                 stdoutCapacity, exitCode, stderrBuffer, stdoutBuffer, running,
                 call, updArgs, pending, lastReturn, calls, maxReqErr,
                 maxReqOut>>
  /\ UNCHANGED <<ioVars, hostVars>>

\* How run() leaves: with the wait flag the guard's destructor has to take
\* the mutex once more, without it run() is over.
Unwind(t, exception) ==
  IF wait
    THEN /\ pending' = [pending EXCEPT ![t] = exception]
         /\ pc' = [pc EXCEPT ![t] = "rel_lock"]
         /\ UNCHANGED <<call, lastReturn, snap>>
    ELSE /\ pc' = [pc EXCEPT ![t] = "idle"]
         /\ lastReturn' = [op |-> "run", res |-> exception]
         /\ call' = [call EXCEPT ![t] = NoCall]
         /\ snap' = [snap EXCEPT ![t] = NoSnap]
         /\ UNCHANGED pending

\* Mutant: a failed fork is recorded without looking at the wait flag.
runForkAlwaysRecords(t) ==
  /\ pc[t] = "prefork"
  /\ \E result \in {"pipe", "sysconf", "fork", "forked"} :
       /\ result = "pipe" =>
            \/ snap[t].stdinBuffer # <<>>
            \/ snap[t].stderrCapacity # 0
            \/ snap[t].stdoutCapacity # 0
       /\ CASE result \in {"pipe", "sysconf"} ->
                 /\ Unwind(t, "system_error")
                 /\ UNCHANGED <<updArgs>>
            [] result = "fork" ->
                 IF TRUE
                   THEN /\ updArgs' = [updArgs EXCEPT ![t] =
                             [set |-> TRUE, exitCode |-> exitCodeSystemError,
                              stdoutBuffer |-> <<>>, stderrBuffer |-> <<>>]]
                        /\ pending' = [pending EXCEPT ![t] = "system_error"]
                        /\ pc' = [pc EXCEPT ![t] = "upd_lock"]
                        /\ UNCHANGED <<call, lastReturn, snap>>
                   ELSE /\ Unwind(t, "system_error")
                        /\ UNCHANGED <<updArgs>>
            [] OTHER ->
                 /\ IF wait
                      THEN /\ pc' = [pc EXCEPT ![t] = "waitpid"]
                           /\ UNCHANGED <<call, lastReturn, snap, pending>>
                      ELSE Unwind(t, "none")
                 /\ UNCHANGED updArgs
  /\ UNCHANGED <<cmdVars, calls, maxReqErr, maxReqOut>>
  /\ UNCHANGED <<ioVars, hostVars>>

\* From the snapshot to fork(): the shared segment, the three pipe objects,
\* sysconf and fork.  A pipe is only created for a non-empty payload or a
\* non-zero capacity.
runFork(t) ==
  /\ pc[t] = "prefork"
  /\ \E result \in {"pipe", "sysconf", "fork", "forked"} :
       /\ result = "pipe" =>
            \/ snap[t].stdinBuffer # <<>>
            \/ snap[t].stderrCapacity # 0
            \/ snap[t].stdoutCapacity # 0
       /\ CASE result \in {"pipe", "sysconf"} ->
                 /\ Unwind(t, "system_error")
                 /\ UNCHANGED <<updArgs>>
            [] result = "fork" ->
                 IF wait
                   THEN /\ updArgs' = [updArgs EXCEPT ![t] =
                             [set |-> TRUE, exitCode |-> exitCodeSystemError,
                              stdoutBuffer |-> <<>>, stderrBuffer |-> <<>>]]
                        /\ pending' = [pending EXCEPT ![t] = "system_error"]
                        /\ pc' = [pc EXCEPT ![t] = "upd_lock"]
                        /\ UNCHANGED <<call, lastReturn, snap>>
                   ELSE /\ Unwind(t, "system_error")
                        /\ UNCHANGED <<updArgs>>
            [] OTHER ->
                 /\ IF wait
                      THEN /\ pc' = [pc EXCEPT ![t] = "waitpid"]
                           /\ UNCHANGED <<call, lastReturn, snap, pending>>
                      ELSE Unwind(t, "none")
                 /\ UNCHANGED updArgs
  /\ UNCHANGED <<cmdVars, calls, maxReqErr, maxReqOut>>
  /\ UNCHANGED <<ioVars, hostVars>>

\* The parent in wait mode, from the start of the three pool tasks to the
\* point where it either calls updateResultState or throws: waitpid, the
\* shared segment, the status macros and the get() of the reader futures.
\* The child is summarised by what it did: exec failed or not, how it
\* terminated, what it wrote.
runWaitPid(t) ==
  /\ pc[t] = "waitpid"
  /\ \E waitpidOk \in BOOLEAN, execveStatus \in {0, -1},
        childStatus \in {StatusExited(k) : k \in ExitStatuses}
                          \cup {StatusSignaled(g) : g \in Signals} :
       LET status == IF execveStatus # 0 THEN StatusExited(-1) ELSE childStatus
           written == IF execveStatus # 0 THEN {<<>>} ELSE ChildOutputs
           stdoutFutures == {readDataAsync(snap[t].stdoutCapacity, s, k, n) :
                               s \in written, k \in 1..2, n \in {-1, 0, 1}}
           stderrFutures == {readDataAsync(snap[t].stderrCapacity, s, k, n) :
                               s \in written, k \in 1..2, n \in {-1, 0, 1}}
           stdinFutures == IF snap[t].stdinBuffer = <<>> THEN {TRUE}
                           ELSE BOOLEAN
       IN  \E stdoutFuture \in stdoutFutures, stderrFuture \in stderrFutures,
              stdinOk \in stdinFutures :
             IF ~waitpidOk \/ execveStatus # 0
               THEN /\ updArgs' = [updArgs EXCEPT ![t] =
                         [set |-> TRUE, exitCode |-> exitCodeSystemError,
                          stdoutBuffer |-> <<>>, stderrBuffer |-> <<>>]]
                    /\ pending' = [pending EXCEPT ![t] = "system_error"]
                    /\ pc' = [pc EXCEPT ![t] = "upd_lock"]
               ELSE IF ~stdoutFuture.ok \/ ~stderrFuture.ok
                 THEN /\ pending' = [pending EXCEPT ![t] = "system_error"]
                      /\ pc' = [pc EXCEPT ![t] = "rel_lock"]
                      /\ UNCHANGED updArgs
                 ELSE /\ updArgs' = [updArgs EXCEPT ![t] =
                           [set |-> TRUE, exitCode |-> ExitCodeOf(status),
                            stdoutBuffer |-> stdoutFuture.buffer,
                            stderrBuffer |-> stderrFuture.buffer]]
                      /\ pending' = [pending EXCEPT ![t] =
                           IF ~WIFEXITED(status) /\ ~WIFSIGNALED(status)
                             THEN "logic_error"
                           ELSE IF ~stdinOk THEN "system_error" ELSE "none"]
                      /\ pc' = [pc EXCEPT ![t] = "upd_lock"]
  /\ UNCHANGED <<cmdVars, call, snap, lastReturn, calls, maxReqErr,
                 maxReqOut>>
  /\ UNCHANGED <<ioVars, hostVars>>

\* Mutant: updateResultState replaces the exit code and keeps the buffers.
updateResultStateExitCodeOnly(t) ==
  /\ pc[t] = "upd"
  /\ exitCode' = updArgs[t].exitCode
  /\ UNCHANGED <<stderrBuffer, stdoutBuffer>>
  /\ mutex' = NoThread
  /\ pc' = [pc EXCEPT ![t] = "rel_lock"]
  /\ UNCHANGED <<wait, arguments, envVars, stdinBuffer, stderrCapacity,
                 stdoutCapacity, running, call, snap, updArgs, pending,
                 lastReturn, calls, maxReqErr, maxReqOut>>
  /\ UNCHANGED <<ioVars, hostVars>>

\* Command::updateResultState, under the mutex.
updateResultState(t) ==
  /\ pc[t] = "upd"
  /\ exitCode' = updArgs[t].exitCode
  /\ stderrBuffer' = updArgs[t].stderrBuffer
  /\ stdoutBuffer' = updArgs[t].stdoutBuffer
  /\ mutex' = NoThread
  /\ pc' = [pc EXCEPT ![t] = "rel_lock"]
  /\ UNCHANGED <<wait, arguments, envVars, stdinBuffer, stderrCapacity,
                 stdoutCapacity, running, call, snap, updArgs, pending,
                 lastReturn, calls, maxReqErr, maxReqOut>>
  /\ UNCHANGED <<ioVars, hostVars>>

\* Mutant: the flag is only cleared when run() returns normally.
RunningFlagGuardReleaseOnReturn(t) ==
  /\ pc[t] = "rel"
  /\ running' = (pending[t] # "none")
  /\ Leave(t, pending[t])
  /\ snap' = [snap EXCEPT ![t] = NoSnap]
  /\ updArgs' = [updArgs EXCEPT ![t] = NoUpd]
  /\ pending' = [pending EXCEPT ![t] = "none"]
  /\ UNCHANGED <<wait, arguments, envVars, stdinBuffer, stderrCapacity,
                 stdoutCapacity, exitCode, stderrBuffer, stdoutBuffer, calls,
                 maxReqErr, maxReqOut>>
  /\ UNCHANGED <<ioVars, hostVars>>

\* RunningFlagGuard::~RunningFlagGuard, under the mutex; run() is over.
RunningFlagGuardRelease(t) ==
  /\ pc[t] = "rel"
  /\ running' = FALSE
  /\ Leave(t, pending[t])
  /\ snap' = [snap EXCEPT ![t] = NoSnap]
  /\ updArgs' = [updArgs EXCEPT ![t] = NoUpd]
  /\ pending' = [pending EXCEPT ![t] = "none"]
  /\ UNCHANGED <<wait, arguments, envVars, stdinBuffer, stderrCapacity,
                 stdoutCapacity, exitCode, stderrBuffer, stdoutBuffer, calls,
                 maxReqErr, maxReqOut>>
  /\ UNCHANGED <<ioVars, hostVars>>

Next ==
  \E t \in Threads :
    \/ setArgumentCall(t) \/ setArgument(t)
    \/ setEnvVarCall(t) \/ setEnvVar(t)
    \/ setStdInBufferCall(t) \/ setStdInBuffer(t)
    \/ ensureStdErrCapacityCall(t) \/ ensureStdErrCapacity(t)
    \/ ensureStdOutCapacityCall(t) \/ ensureStdOutCapacity(t)
    \/ getterCall(t) \/ getter(t)
    \/ runCall(t) \/ RunningFlagGuard(t) \/ Acquire(t) \/ runSnapshot(t)
    \/ runFork(t) \/ runWaitPid(t) \/ updateResultState(t)
    \/ RunningFlagGuardRelease(t)

Spec == Init /\ [][Next]_vars

(***************************************************************************)
(* The configuration a run uses (ConfigSpec): callers set arguments and    *)
(* environment overrides, with more indexes, names and values than in      *)
(* Spec, and run the command.                                              *)
(***************************************************************************)
ConfigIndexes == {-1, 0, 1, 2, 3}
ConfigEnvNames == {<<"A">>, <<"B">>}
ConfigEnvValues == {<<>>, <<"1">>}

ConfigNext ==
  \E t \in Threads :
    \/ setArgumentCallOf(t, ConfigIndexes) \/ setArgument(t)
    \/ setEnvVarCallOf(t, ConfigEnvNames, ConfigEnvValues) \/ setEnvVar(t)
    \/ runCall(t) \/ RunningFlagGuard(t) \/ Acquire(t) \/ runSnapshot(t)
    \/ runFork(t) \/ runWaitPid(t) \/ updateResultState(t)
    \/ RunningFlagGuardRelease(t)

ConfigSpec == Init /\ [][ConfigNext]_vars


(***************************************************************************)
(* One call of run() in detail (RunSpec).  The caller is the only thread   *)
(* that uses the Command object, so the values run() copies under the lock *)
(* are the fields themselves and each critical section is one step.  The   *)
(* pool tasks, the pool threads and the child run concurrently with it.    *)
(***************************************************************************)
cfgVars == <<wait, arguments, envVars, stdinBuffer, stderrCapacity,
             stdoutCapacity, mutex>>
callerVars == <<pc, call, snap, updArgs, pending, calls, maxReqErr,
                maxReqOut>>

capacityOf(stream) ==
  IF stream = "stdout" THEN stdoutCapacity ELSE stderrCapacity

\* A Command that was constructed with the wait flag w and configured,
\* by one thread, with the payload and the capacities given; no run yet.
Configured(w, payload, errCapacity, outCapacity) ==
  /\ wait = w
  /\ arguments = (0 :> commandPath)
  /\ envVars = <<>>
  /\ stdinBuffer = payload
  /\ stderrCapacity = errCapacity
  /\ stdoutCapacity = outCapacity
  /\ exitCode = 0
  /\ stderrBuffer = <<>>
  /\ stdoutBuffer = <<>>
  /\ running = FALSE
  /\ mutex = NoThread
  /\ pc = [t \in Threads |-> "idle"]
  /\ call = [t \in Threads |-> NoCall]
  /\ snap = [t \in Threads |-> NoSnap]
  /\ updArgs = [t \in Threads |-> NoUpd]
  /\ pending = [t \in Threads |-> "none"]
  /\ lastReturn = [op |-> "none", res |-> "none"]
  /\ calls = 0
  /\ maxReqErr = 0
  /\ maxReqOut = 0
  /\ RunIdle

RunConfig ==
  \E w \in BOOLEAN, payload \in StdinBuffers :
    \E errCapacity, outCapacity \in (IF w THEN RunCapacities ELSE {0}) :
      Configured(w, payload, errCapacity, outCapacity)

\* The environment may make up to MaxFailures system calls fail.
RunInit == RunConfig /\ failuresLeft = MaxFailures

\* A run in wait mode in which no system call fails for a reason outside
\* the model (a write to a pipe without reader still fails).
FairRunInit == RunConfig /\ wait /\ failuresLeft = 0

\* PreFilledPipe and AccumulatingPipe only create a pipe for a non-empty
\* payload or a non-zero capacity.
hasPipe(p) == IF p = "stdin" THEN stdinBuffer # <<>> ELSE capacityOf(p) # 0

\* The pipes after fork() and the child's rebinding of its descriptors
\* 0, 1 and 2: the parent still holds both ends, the child the end it uses.
forkedPipe(p) ==
  IF ~hasPipe(p) THEN NoPipe
  ELSE IF p = "stdin"
    THEN [buf |-> <<>>, w |-> {"parent"}, r |-> {"parent", "child"}]
    ELSE [buf |-> <<>>, w |-> {"parent", "child"}, r |-> {"parent"}]

\* Mutant: readDataAsync leaves the parent's copy of the write end open.
keepWriteFd(p) == p

\* ::close(this->writeFd) in readDataAsync.
closeWriteFd(p) == [p EXCEPT !.w = @ \ {"parent"}]

\* ::close(this->readFd) in writeDataAsyncInternal, ::close(fd) in readData.
closeReadFd(p) == [p EXCEPT !.r = @ \ {"parent"}]

\* The process ends: all its descriptors are closed.
closeChildFds(ps) ==
  [p \in Tasks |-> [ps[p] EXCEPT !.w = @ \ {"child"}, !.r = @ \ {"child"}]]

\* Mutant: the result vector keeps its full size.
resizeNone(buffer, n) == buffer

\* std::vector::resize to a smaller size.
resize(buffer, n) == SubSeq(buffer, 1, n)

\* wakeUpCv.notify_one(): one of the threads blocked in wait, if any,
\* goes back to the head of the loop.
notify_one ==
  IF threadsWaiting > 0
    THEN /\ threadsWaiting' = threadsWaiting - 1
         /\ threadsAtLoop' = threadsAtLoop + 1
    ELSE UNCHANGED <<threadsWaiting, threadsAtLoop>>

\* submit that wakes a thread up without taking it off the idle count.
submitKeepsIdleCount(id) ==
  /\ pendingTasks' = Append(pendingTasks, id)
  /\ IF idleThreads # 0
       THEN /\ UNCHANGED idleThreads
            /\ notify_one
       ELSE /\ threadsAtLoop' = threadsAtLoop + 1
            /\ UNCHANGED <<idleThreads, threadsWaiting>>
  /\ UNCHANGED <<maxIdleThreads, shutdown>>

\* submit that puts the task at the front of the list.
submitPushFront(id) ==
  /\ pendingTasks' = <<id>> \o pendingTasks
  /\ IF idleThreads # 0
       THEN /\ idleThreads' = idleThreads - 1
            /\ notify_one
       ELSE /\ threadsAtLoop' = threadsAtLoop + 1
            /\ UNCHANGED <<idleThreads, threadsWaiting>>
  /\ UNCHANGED <<maxIdleThreads, shutdown>>

\* ThreadPoolExecutor::submit, under the mutex of the shared state.
submit(id) ==
  /\ pendingTasks' = Append(pendingTasks, id)
  /\ IF idleThreads # 0
       THEN /\ idleThreads' = idleThreads - 1
            /\ notify_one
       ELSE /\ threadsAtLoop' = threadsAtLoop + 1
            /\ UNCHANGED <<idleThreads, threadsWaiting>>
  /\ UNCHANGED <<maxIdleThreads, shutdown>>

\* What the child does next: it is inside a write to one of the streams it
\* has not finished, or it exits.
nextOps(toWrite, written) ==
  LET left == {s \in Streams : toWrite[s] > written[s]}
  IN  IF left = {} THEN {"exit"} ELSE left

\* The programs the model executes.  A writer writes nOut bytes to its
\* standard output and nErr bytes to its standard error, in any order, and
\* exits; when execve fails there is no program.
Children ==
  {[NoChild EXCEPT !.state = "running", !.execOk = c.execOk,
                   !.toWrite = c.toWrite, !.cur = c.cur] :
     c \in {d \in [execOk : BOOLEAN,
                    toWrite : [Streams -> OutputLengths],
                    cur : Streams \cup {"exit"}] :
              /\ ~d.execOk => \A s \in Streams : d.toWrite[s] = 0
              /\ d.cur \in nextOps(d.toWrite, NoChild.written)}}

\* Mutant: a failed fork is never recorded.
runStartOfForkUnrecorded(children) ==
  /\ rpc = "idle"
  /\ \E result \in {"pipe", "sysconf", "fork", "forked"} :
       /\ result = "pipe" => \E p \in Tasks : hasPipe(p)
       /\ IF result = "forked"
            THEN /\ child' \in children
                 /\ pipes' = [p \in Tasks |-> forkedPipe(p)]
                 /\ running' = wait
                 /\ rpc' = IF wait THEN "readErr" ELSE "writeIn"
                 /\ UNCHANGED <<exitCode, stderrBuffer, stdoutBuffer,
                                lastReturn>>
            ELSE /\ rpc' = "done"
                 /\ lastReturn' = [op |-> "run", res |-> "system_error",
                                   what |-> result]
                 /\ IF FALSE
                      THEN /\ exitCode' = exitCodeSystemError
                           /\ stderrBuffer' = <<>>
                           /\ stdoutBuffer' = <<>>
                      ELSE UNCHANGED <<exitCode, stderrBuffer, stdoutBuffer>>
                 /\ UNCHANGED <<child, pipes, running>>
  /\ UNCHANGED <<task, future, failuresLeft, poolVars, cfgVars, callerVars>>
  /\ UNCHANGED hostVars

\* run() from its first statement to fork(): the guard, the snapshot, the
\* shared segment, the pipes, sysconf, fork and, in the child, the code up
\* to execve.  children: what the command path may execute.
runStartOf(children) ==
  /\ rpc = "idle"
  /\ \E result \in {"pipe", "sysconf", "fork", "forked"} :
       /\ result = "pipe" => \E p \in Tasks : hasPipe(p)
       /\ IF result = "forked"
            THEN /\ child' \in children
                 /\ pipes' = [p \in Tasks |-> forkedPipe(p)]
                 /\ running' = wait
                 /\ rpc' = IF wait THEN "readErr" ELSE "writeIn"
                 /\ UNCHANGED <<exitCode, stderrBuffer, stdoutBuffer,
                                lastReturn>>
            ELSE /\ rpc' = "done"
                 /\ lastReturn' = [op |-> "run", res |-> "system_error",
                                   what |-> result]
                 /\ IF wait /\ result = "fork"
                      THEN /\ exitCode' = exitCodeSystemError
                           /\ stderrBuffer' = <<>>
                           /\ stdoutBuffer' = <<>>
                      ELSE UNCHANGED <<exitCode, stderrBuffer, stdoutBuffer>>
                 /\ UNCHANGED <<child, pipes, running>>
  /\ UNCHANGED <<task, future, failuresLeft, poolVars, cfgVars, callerVars>>
  /\ UNCHANGED hostVars

runStart == runStartOf(Children)

\* stderrPipe.readDataAsync() and stdoutPipe.readDataAsync().
readDataAsyncCall ==
  /\ rpc \in {"readErr", "readOut"}
  /\ LET id == IF rpc = "readErr" THEN "stderr" ELSE "stdout"
     IN  IF capacityOf(id) = 0
           THEN /\ future' = [future EXCEPT ![id] =
                                [state |-> "value", value |-> <<>>]]
                /\ UNCHANGED <<pipes, task, poolVars>>
           ELSE /\ pipes' = [pipes EXCEPT ![id] = closeWriteFd(@)]
                /\ task' = [task EXCEPT ![id] =
                     [state |-> "queued", at |-> "read", total |-> 0,
                      buffer |-> [i \in 1..capacityOf(id) |-> 0],
                      failed |-> FALSE]]
                /\ future' = [future EXCEPT ![id] =
                                [state |-> "pending", value |-> <<>>]]
                /\ submit(id)
  /\ rpc' = IF rpc = "readErr" THEN "readOut" ELSE "writeIn"
  /\ UNCHANGED <<child, failuresLeft, exitCode, stderrBuffer, stdoutBuffer,
                 running, lastReturn, cfgVars, callerVars>>
  /\ UNCHANGED hostVars

\* Mutant: run() waits for the future of the writer before it returns.
writeDataAsyncInternalThenGet ==
  /\ rpc = "writeIn"
  /\ LET waitForPid == ~wait
     IN  IF stdinBuffer = <<>> /\ ~waitForPid
           THEN /\ future' = [future EXCEPT !["stdin"] =
                                [state |-> "value", value |-> <<>>]]
                /\ UNCHANGED <<pipes, task, poolVars>>
           ELSE /\ pipes' = [pipes EXCEPT !["stdin"] = closeReadFd(@)]
                /\ task' = [task EXCEPT !["stdin"] =
                     [state |-> "queued", at |-> "write", total |-> 0,
                      buffer |-> stdinBuffer, failed |-> FALSE]]
                /\ future' = [future EXCEPT !["stdin"] =
                                [state |-> "pending", value |-> <<>>]]
                /\ submit("stdin")
  /\ IF TRUE
       THEN /\ rpc' = "getIn"
            /\ UNCHANGED lastReturn
       ELSE /\ rpc' = "done"
            /\ lastReturn' = [op |-> "run", res |-> "ok", what |-> "none"]
  /\ UNCHANGED <<child, failuresLeft, exitCode, stderrBuffer, stdoutBuffer,
                 running, cfgVars, callerVars>>
  /\ UNCHANGED hostVars

\* Mutant: run() goes on to its waitpid without looking at the wait flag.
writeDataAsyncInternalThenWait ==
  /\ rpc = "writeIn"
  /\ LET waitForPid == ~wait
     IN  IF stdinBuffer = <<>> /\ ~waitForPid
           THEN /\ future' = [future EXCEPT !["stdin"] =
                                [state |-> "value", value |-> <<>>]]
                /\ UNCHANGED <<pipes, task, poolVars>>
           ELSE /\ pipes' = [pipes EXCEPT !["stdin"] = closeReadFd(@)]
                /\ task' = [task EXCEPT !["stdin"] =
                     [state |-> "queued", at |-> "write", total |-> 0,
                      buffer |-> stdinBuffer, failed |-> FALSE]]
                /\ future' = [future EXCEPT !["stdin"] =
                                [state |-> "pending", value |-> <<>>]]
                /\ submit("stdin")
  /\ IF TRUE
       THEN /\ rpc' = "waitpid"
            /\ UNCHANGED lastReturn
       ELSE /\ rpc' = "done"
            /\ lastReturn' = [op |-> "run", res |-> "ok", what |-> "none"]
  /\ UNCHANGED <<child, failuresLeft, exitCode, stderrBuffer, stdoutBuffer,
                 running, cfgVars, callerVars>>
  /\ UNCHANGED hostVars

\* Mutant: without a payload no task is submitted, whatever waitForPid is.
writeDataAsyncInternalNoTask ==
  /\ rpc = "writeIn"
  /\ LET waitForPid == ~wait
     IN  IF stdinBuffer = <<>>
           THEN /\ future' = [future EXCEPT !["stdin"] =
                                [state |-> "value", value |-> <<>>]]
                /\ UNCHANGED <<pipes, task, poolVars>>
           ELSE /\ pipes' = [pipes EXCEPT !["stdin"] = closeReadFd(@)]
                /\ task' = [task EXCEPT !["stdin"] =
                     [state |-> "queued", at |-> "write", total |-> 0,
                      buffer |-> stdinBuffer, failed |-> FALSE]]
                /\ future' = [future EXCEPT !["stdin"] =
                                [state |-> "pending", value |-> <<>>]]
                /\ submit("stdin")
  /\ IF wait
       THEN /\ rpc' = "waitpid"
            /\ UNCHANGED lastReturn
       ELSE /\ rpc' = "done"
            /\ lastReturn' = [op |-> "run", res |-> "ok", what |-> "none"]
  /\ UNCHANGED <<child, failuresLeft, exitCode, stderrBuffer, stdoutBuffer,
                 running, cfgVars, callerVars>>
  /\ UNCHANGED hostVars

\* stdinPipe.writeDataAsync() with the wait flag, otherwise
\* stdinPipe.writeDataAsyncAndWaitForPid(childPid) and the return of run().
writeDataAsyncInternal ==
  /\ rpc = "writeIn"
  /\ LET waitForPid == ~wait
     IN  IF stdinBuffer = <<>> /\ ~waitForPid
           THEN /\ future' = [future EXCEPT !["stdin"] =
                                [state |-> "value", value |-> <<>>]]
                /\ UNCHANGED <<pipes, task, poolVars>>
           ELSE /\ pipes' = [pipes EXCEPT !["stdin"] = closeReadFd(@)]
                /\ task' = [task EXCEPT !["stdin"] =
                     [state |-> "queued", at |-> "write", total |-> 0,
                      buffer |-> stdinBuffer, failed |-> FALSE]]
                /\ future' = [future EXCEPT !["stdin"] =
                                [state |-> "pending", value |-> <<>>]]
                /\ submit("stdin")
  /\ IF wait
       THEN /\ rpc' = "waitpid"
            /\ UNCHANGED lastReturn
       ELSE /\ rpc' = "done"
            /\ lastReturn' = [op |-> "run", res |-> "ok", what |-> "none"]
  /\ UNCHANGED <<child, failuresLeft, exitCode, stderrBuffer, stdoutBuffer,
                 running, cfgVars, callerVars>>
  /\ UNCHANGED hostVars

\* Mutant: the caller tests the shared segment without waiting for the child
\* to terminate.
waitpidNoHang(failed) ==
  /\ rpc = "waitpid"
  /\ failed => failuresLeft > 0
  /\ failuresLeft' = IF failed THEN failuresLeft - 1 ELSE failuresLeft
  /\ IF failed
       THEN /\ exitCode' = exitCodeSystemError
            /\ stderrBuffer' = <<>>
            /\ stdoutBuffer' = <<>>
            /\ lastReturn' = [op |-> "run", res |-> "system_error",
                              what |-> "waitpid"]
            /\ running' = FALSE
            /\ rpc' = "done"
            /\ UNCHANGED child
       ELSE /\ child' = [child EXCEPT !.state =
                        IF @ = "zombie" THEN "reaped" ELSE @]
            /\ IF child.execveStatus # 0
                 THEN /\ exitCode' = exitCodeSystemError
                      /\ stderrBuffer' = <<>>
                      /\ stdoutBuffer' = <<>>
                      /\ lastReturn' = [op |-> "run", res |-> "system_error",
                                        what |-> "execve"]
                      /\ running' = FALSE
                      /\ rpc' = "done"
                 ELSE /\ rpc' = "get"
                      /\ UNCHANGED <<exitCode, stderrBuffer, stdoutBuffer,
                                     lastReturn, running>>
  /\ UNCHANGED <<pipes, task, future, poolVars, cfgVars, callerVars>>
  /\ UNCHANGED hostVars

\* ::waitpid(childPid, &childStatus, 0) in the caller and the test of the
\* shared segment.  failed: waitpid returns -1.
waitpid(failed) ==
  /\ rpc = "waitpid"
  /\ failed => failuresLeft > 0
  /\ failuresLeft' = IF failed THEN failuresLeft - 1 ELSE failuresLeft
  /\ IF failed
       THEN /\ exitCode' = exitCodeSystemError
            /\ stderrBuffer' = <<>>
            /\ stdoutBuffer' = <<>>
            /\ lastReturn' = [op |-> "run", res |-> "system_error",
                              what |-> "waitpid"]
            /\ running' = FALSE
            /\ rpc' = "done"
            /\ UNCHANGED child
       ELSE /\ child.state = "zombie"
            /\ child' = [child EXCEPT !.state = "reaped"]
            /\ IF child.execveStatus # 0
                 THEN /\ exitCode' = exitCodeSystemError
                      /\ stderrBuffer' = <<>>
                      /\ stdoutBuffer' = <<>>
                      /\ lastReturn' = [op |-> "run", res |-> "system_error",
                                        what |-> "execve"]
                      /\ running' = FALSE
                      /\ rpc' = "done"
                 ELSE /\ rpc' = "get"
                      /\ UNCHANGED <<exitCode, stderrBuffer, stdoutBuffer,
                                     lastReturn, running>>
  /\ UNCHANGED <<pipes, task, future, poolVars, cfgVars, callerVars>>
  /\ UNCHANGED hostVars

\* stdoutFuture.get() and stderrFuture.get() as arguments of
\* updateResultState, and updateResultState.  The order of the two get()
\* is not specified: early is the case where the one evaluated first holds
\* an exception while the other future is not ready.
futuresGet(early) ==
  /\ rpc = "get"
  /\ LET ready == {s \in Streams : future[s].state # "pending"}
         thrown == {s \in Streams : future[s].state = "exception"}
     IN  /\ IF early THEN thrown # {} /\ ready # Streams
                     ELSE ready = Streams
         /\ IF thrown # {}
              THEN /\ lastReturn' = [op |-> "run", res |-> "system_error",
                                     what |-> "read"]
                   /\ running' = FALSE
                   /\ rpc' = "done"
                   /\ UNCHANGED <<exitCode, stderrBuffer, stdoutBuffer>>
              ELSE /\ exitCode' = ExitCodeOf(child.status)
                   /\ stdoutBuffer' = future["stdout"].value
                   /\ stderrBuffer' = future["stderr"].value
                   /\ IF WIFEXITED(child.status) \/ WIFSIGNALED(child.status)
                        THEN /\ rpc' = "getIn"
                             /\ UNCHANGED <<lastReturn, running>>
                        ELSE /\ lastReturn' = [op |-> "run",
                                               res |-> "logic_error",
                                               what |-> "status"]
                             /\ running' = FALSE
                             /\ rpc' = "done"
  /\ UNCHANGED <<child, pipes, task, future, failuresLeft, poolVars, cfgVars,
                 callerVars>>
  /\ UNCHANGED hostVars

\* stdinFuture.get() and the return of run().
stdinFutureGet ==
  /\ rpc = "getIn"
  /\ future["stdin"].state # "pending"
  /\ lastReturn' = IF future["stdin"].state = "exception"
                     THEN [op |-> "run", res |-> "system_error",
                           what |-> "write"]
                     ELSE [op |-> "run", res |-> "ok", what |-> "none"]
  /\ running' = FALSE
  /\ rpc' = "done"
  /\ UNCHANGED <<child, pipes, task, future, failuresLeft, poolVars, exitCode,
                 stderrBuffer, stdoutBuffer, cfgVars, callerVars>>
  /\ UNCHANGED hostVars

\* The child is gone: a zombie with the given status word.
terminated(c, how, code, status) ==
  [c EXCEPT !.state = "zombie", !.how = how, !.code = code,
            !.status = status]

\* One write() of the executed program to the stream it is writing to.  A
\* stream without capacity is /dev/null; a pipe takes what fits and blocks
\* the writer when it is full; without a reader the writer gets SIGPIPE.
childWrite ==
  /\ child.state = "running"
  /\ child.cur \in Streams
  /\ LET s == child.cur
         left == child.toWrite[s] - child.written[s]
         room == PipeBufSize - Len(pipes[s].buf)
     IN  IF ~hasPipe(s)
           THEN /\ \E cur \in nextOps(child.toWrite,
                                      [child.written EXCEPT ![s] = @ + left]) :
                     child' = [child EXCEPT !.written[s] = @ + left,
                                            !.cur = cur]
                /\ UNCHANGED pipes
           ELSE IF pipes[s].r = {}
             THEN /\ child' = terminated(child, "signal", 13,
                                         StatusSignaled(13))
                  /\ pipes' = closeChildFds(pipes)
             ELSE /\ room > 0
                  /\ \E k \in 1..Min(room, left) :
                       /\ pipes' = [pipes EXCEPT ![s].buf = @ \o
                            ChildBytes(s, child.written[s],
                                       child.written[s] + k)]
                       /\ \E cur \in nextOps(child.toWrite,
                               [child.written EXCEPT ![s] = @ + k]) :
                            child' = [child EXCEPT !.written[s] = @ + k,
                                                   !.cur = cur]
  /\ UNCHANGED <<rpc, task, future, failuresLeft, poolVars, cmdVars, thrVars>>
  /\ UNCHANGED hostVars

\* The executed program reads from its standard input.
childRead ==
  /\ child.state = "running"
  /\ child.execOk
  /\ "child" \in pipes["stdin"].r
  /\ pipes["stdin"].buf # <<>>
  /\ \E k \in 1..Len(pipes["stdin"].buf) :
       pipes' = [pipes EXCEPT !["stdin"].buf =
                   SubSeq(@, k + 1, Len(@))]
  /\ UNCHANGED <<rpc, child, task, future, failuresLeft, poolVars, cmdVars,
                 thrVars>>
  /\ UNCHANGED hostVars

\* The executed program exits, or execve failed and the child stores the
\* status in the shared segment and calls _exit(-1).
childExit ==
  /\ child.state = "running"
  /\ child.cur = "exit"
  /\ IF child.execOk
       THEN \E k \in ExitStatuses :
              child' = terminated(child, "exit", k, StatusExited(k))
       ELSE child' = [terminated(child, "execve", -1, StatusExited(-1))
                        EXCEPT !.execveStatus = -1]
  /\ pipes' = closeChildFds(pipes)
  /\ UNCHANGED <<rpc, task, future, failuresLeft, poolVars, cmdVars, thrVars>>
  /\ UNCHANGED hostVars

\* The child is killed by a signal.
childKilled ==
  /\ child.state = "running"
  /\ \E g \in Signals :
       child' = terminated(child, "signal", g, StatusSignaled(g))
  /\ pipes' = closeChildFds(pipes)
  /\ UNCHANGED <<rpc, task, future, failuresLeft, poolVars, cmdVars, thrVars>>
  /\ UNCHANGED hostVars

\* The head of the loop where a thread that leaves at shutdown does not
\* take itself off the idle count.
loopHeadLeavesCounted(tk) ==
  IF pendingTasks = <<>>
    THEN /\ IF shutdown
              THEN UNCHANGED <<idleThreads, threadsWaiting>>
              ELSE /\ threadsWaiting' = threadsWaiting + 1
                   /\ UNCHANGED idleThreads
         /\ task' = tk
         /\ UNCHANGED pendingTasks
    ELSE /\ pendingTasks' = Tail(pendingTasks)
         /\ task' = [tk EXCEPT ![Head(pendingTasks)].state = "running"]
         /\ UNCHANGED <<idleThreads, threadsWaiting>>

\* The head of the loop without the test of the shutdown flag.
loopHeadIgnoresShutdown(tk) ==
  IF pendingTasks = <<>>
    THEN /\ threadsWaiting' = threadsWaiting + 1
         /\ task' = tk
         /\ UNCHANGED <<pendingTasks, idleThreads>>
    ELSE /\ pendingTasks' = Tail(pendingTasks)
         /\ task' = [tk EXCEPT ![Head(pendingTasks)].state = "running"]
         /\ UNCHANGED <<idleThreads, threadsWaiting>>

\* The head of the loop of processTasks, under the mutex: take the first
\* pending task, or wait, or leave after shutdown.  tk is the state of the
\* tasks before the step.
loopHead(tk) ==
  IF pendingTasks = <<>>
    THEN /\ IF shutdown
              THEN /\ idleThreads' = idleThreads - 1
                   /\ UNCHANGED threadsWaiting
              ELSE /\ threadsWaiting' = threadsWaiting + 1
                   /\ UNCHANGED idleThreads
         /\ task' = tk
         /\ UNCHANGED pendingTasks
    ELSE /\ pendingTasks' = Tail(pendingTasks)
         /\ task' = [tk EXCEPT ![Head(pendingTasks)].state = "running"]
         /\ UNCHANGED <<idleThreads, threadsWaiting>>

\* A thread that was created by submit or woken up by notify_one enters the
\* loop of processTasks.
processTasks ==
  /\ threadsAtLoop > 0
  /\ threadsAtLoop' = threadsAtLoop - 1
  /\ loopHead(task)
  /\ UNCHANGED <<rpc, child, pipes, future, failuresLeft, maxIdleThreads,
                 shutdown, cmdVars, thrVars>>
  /\ UNCHANGED hostVars

\* The end of the loop body without the test against maxIdleThreads.
afterTaskNoCap(tk) ==
  /\ IF pendingTasks = <<>>
       THEN /\ IF shutdown
                 THEN UNCHANGED <<idleThreads, threadsWaiting>>
                 ELSE /\ idleThreads' = idleThreads + 1
                      /\ threadsWaiting' = threadsWaiting + 1
            /\ task' = tk
            /\ UNCHANGED pendingTasks
       ELSE /\ idleThreads' = idleThreads + 1
            /\ pendingTasks' = Tail(pendingTasks)
            /\ task' = [tk EXCEPT ![Head(pendingTasks)].state = "running"]
            /\ UNCHANGED threadsWaiting
  /\ UNCHANGED <<threadsAtLoop, maxIdleThreads, shutdown>>

\* The end of the loop body of processTasks: the task has returned, the
\* thread takes the mutex again and either leaves, because maxIdleThreads
\* threads are idle, or counts itself as idle and goes on with the head of
\* the loop in the same critical section.
afterTask(tk) ==
  /\ IF idleThreads = maxIdleThreads
       THEN /\ task' = tk
            /\ UNCHANGED <<pendingTasks, idleThreads, threadsWaiting>>
       ELSE IF pendingTasks = <<>>
         THEN /\ IF shutdown
                   THEN UNCHANGED <<idleThreads, threadsWaiting>>
                   ELSE /\ idleThreads' = idleThreads + 1
                        /\ threadsWaiting' = threadsWaiting + 1
              /\ task' = tk
              /\ UNCHANGED pendingTasks
         ELSE /\ idleThreads' = idleThreads + 1
              /\ pendingTasks' = Tail(pendingTasks)
              /\ task' = [tk EXCEPT ![Head(pendingTasks)].state = "running"]
              /\ UNCHANGED threadsWaiting
  /\ UNCHANGED <<threadsAtLoop, maxIdleThreads, shutdown>>

\* One read() of AccumulatingPipe::readData and what follows it up to the
\* next read() or the return.  failed: read returns -1.
readDataStep(id, failed) ==
  /\ task[id].state = "running"
  /\ LET t == task[id]
         count == IF t.at = "drain" THEN tempBufferSize
                  ELSE capacityOf(id) - t.total
         avail == Len(pipes[id].buf)
     IN  IF failed
           THEN /\ failuresLeft > 0
                /\ failuresLeft' = failuresLeft - 1
                /\ pipes' = [pipes EXCEPT ![id] = closeReadFd(@)]
                /\ future' = [future EXCEPT ![id] =
                                [state |-> "exception", value |-> <<>>]]
                /\ afterTask([task EXCEPT ![id].state = "over",
                                          ![id].failed = TRUE])
           ELSE IF avail > 0
             THEN \E bytesRead \in 1..Min(count, avail) :
                    /\ pipes' = [pipes EXCEPT ![id].buf =
                                   SubSeq(@, bytesRead + 1, Len(@))]
                    /\ IF t.at = "drain"
                         THEN UNCHANGED task
                         ELSE task' = [task EXCEPT
                                ![id].buffer =
                                   [i \in 1..Len(t.buffer) |->
                                      IF i > t.total /\ i <= t.total + bytesRead
                                        THEN pipes[id].buf[i - t.total]
                                        ELSE t.buffer[i]],
                                ![id].total = @ + bytesRead,
                                ![id].at =
                                   IF t.total + bytesRead = capacityOf(id)
                                     THEN "drain" ELSE "read"]
                    /\ UNCHANGED <<future, failuresLeft, poolVars>>
             ELSE /\ pipes[id].w = {}
                  /\ pipes' = [pipes EXCEPT ![id] = closeReadFd(@)]
                  /\ future' = [future EXCEPT ![id] =
                       [state |-> "value",
                        value |-> resize(t.buffer, t.total)]]
                  /\ afterTask([task EXCEPT ![id].state = "over"])
                  /\ UNCHANGED failuresLeft
  /\ UNCHANGED <<rpc, child, cmdVars, thrVars>>
  /\ UNCHANGED hostVars

\* Mutant: writeData returns without closing the write end.
writeDataEndNoClose(ps, failed) ==
  /\ pipes' = ps
  /\ future' = [future EXCEPT !["stdin"] =
                  [state |-> IF failed THEN "exception" ELSE "value",
                   value |-> <<>>]]
  /\ afterTask([task EXCEPT !["stdin"].state = "over",
                            !["stdin"].failed = failed])

\* The end of PreFilledPipe::writeData: close(fd), and the exception when
\* the last write returned -1.  ps is the state of the pipes before.
writeDataEnd(ps, failed) ==
  /\ pipes' = [ps EXCEPT !["stdin"].w = @ \ {"parent"}]
  /\ future' = [future EXCEPT !["stdin"] =
                  [state |-> IF failed THEN "exception" ELSE "value",
                   value |-> <<>>]]
  /\ afterTask([task EXCEPT !["stdin"].state = "over",
                            !["stdin"].failed = failed])

\* Mutant: every write() starts at the beginning of the buffer.
writeChunkFromStart(buffer, total, n) == SubSeq(buffer, 1, n)

\* The bytes taken by a write() of n bytes after total bytes were written:
\* write(fd, buffer.data() + totalBytesWritten, ...).
writeChunk(buffer, total, n) == SubSeq(buffer, total + 1, total + n)

\* One step of PreFilledPipe::writeData: a write(), or the waitpid of the
\* variant that reaps the child.  failed: the system call returns -1.
\* Without a payload there is no pipe and the descriptor is -1; without a
\* reader write fails with EPIPE.
writeDataStep(failed) ==
  /\ task["stdin"].state = "running"
  /\ failed => failuresLeft > 0
  /\ failuresLeft' = IF failed THEN failuresLeft - 1 ELSE failuresLeft
  /\ LET t == task["stdin"]
         waitForPid == ~wait
         left == Len(t.buffer) - t.total
         room == PipeBufSize - Len(pipes["stdin"].buf)
         written(n) == [pipes EXCEPT !["stdin"].buf =
                          @ \o writeChunk(t.buffer, t.total, n)]
     IN  IF t.at = "waitpid"
           THEN /\ IF failed
                     THEN UNCHANGED child
                     ELSE /\ child.state = "zombie"
                          /\ child' = [child EXCEPT !.state = "reaped"]
                /\ writeDataEnd(pipes, t.failed)
           ELSE IF failed \/ ~hasPipe("stdin") \/ pipes["stdin"].r = {}
             THEN /\ IF waitForPid
                       THEN /\ task' = [task EXCEPT
                                 !["stdin"].at = "waitpid",
                                 !["stdin"].failed = TRUE]
                            /\ UNCHANGED <<pipes, future, poolVars>>
                       ELSE writeDataEnd(pipes, TRUE)
                  /\ UNCHANGED child
             ELSE /\ room > 0
                  /\ \E bytesWritten \in 1..Min(room, left) :
                       IF bytesWritten < left \/ waitForPid
                         THEN /\ pipes' = written(bytesWritten)
                              /\ task' = [task EXCEPT
                                   !["stdin"].total = @ + bytesWritten,
                                   !["stdin"].at =
                                      IF bytesWritten < left THEN "write"
                                      ELSE "waitpid"]
                              /\ UNCHANGED <<future, poolVars>>
                         ELSE writeDataEnd(written(bytesWritten), FALSE)
                  /\ UNCHANGED child
  /\ UNCHANGED <<rpc, cmdVars, thrVars>>
  /\ UNCHANGED hostVars

RunNext ==
  \/ runStart
  \/ readDataAsyncCall
  \/ writeDataAsyncInternal
  \/ \E failed \in BOOLEAN : waitpid(failed)
  \/ \E early \in BOOLEAN : futuresGet(early)
  \/ stdinFutureGet
  \/ childWrite
  \/ childRead
  \/ childExit
  \/ childKilled
  \/ processTasks
  \/ \E id \in Streams, failed \in BOOLEAN : readDataStep(id, failed)
  \/ \E failed \in BOOLEAN : writeDataStep(failed)

RunSpec == RunInit /\ [][RunNext]_vars

\* The scheduler runs every thread that can take a step; the kernel
\* completes a system call that can complete.  Failures of system calls,
\* signals and reads of the child from its standard input are never required
\* to happen.
RunFairness ==
  /\ WF_vars(readDataAsyncCall)
  /\ WF_vars(writeDataAsyncInternal)
  /\ WF_vars(waitpid(FALSE))
  /\ WF_vars(futuresGet(FALSE))
  /\ WF_vars(stdinFutureGet)
  /\ WF_vars(childWrite)
  /\ WF_vars(childExit)
  /\ WF_vars(processTasks)
  /\ \A id \in Streams : WF_vars(readDataStep(id, FALSE))
  /\ WF_vars(writeDataStep(FALSE))

FairRunSpec == FairRunInit /\ [][RunNext]_vars /\ RunFairness

(***************************************************************************)
(* A run in wait mode of a program that copies its standard input to its   *)
(* standard output until end of file (EchoSpec).                           *)
(***************************************************************************)
\* The payloads: every length up to one more than the pipe holds.
EchoPayloads == {[i \in 1..n |-> 50 + i] : n \in 0..MaxStdin}

\* The capacities: none, less than, and as much as the longest payload.
EchoCapacities == 0..MaxStdin

EchoInit ==
  /\ \E payload \in EchoPayloads, outCapacity \in EchoCapacities :
       Configured(TRUE, payload, 0, outCapacity)
  /\ failuresLeft = 0

\* The copying program after execve.
EchoChild == [NoChild EXCEPT !.state = "running", !.cur = "echo"]

runStartEcho == runStartOf({EchoChild})

\* One read() of the copying program from descriptor 0: /dev/null without
\* a payload, otherwise the pipe; it blocks while the pipe is empty and a
\* write end is open, and returns 0 at end of file.
echoRead ==
  /\ child.state = "running"
  /\ child.cur = "echo"
  /\ child.held = <<>>
  /\ LET buf == pipes["stdin"].buf
     IN  IF ~hasPipe("stdin")
           THEN /\ child' = [child EXCEPT !.cur = "exit"]
                /\ UNCHANGED pipes
           ELSE IF buf # <<>>
             THEN \E k \in 1..Len(buf) :
                    /\ child' = [child EXCEPT !.held = SubSeq(buf, 1, k)]
                    /\ pipes' = [pipes EXCEPT !["stdin"].buf =
                                   SubSeq(buf, k + 1, Len(buf))]
             ELSE /\ pipes["stdin"].w = {}
                  /\ child' = [child EXCEPT !.cur = "exit"]
                  /\ UNCHANGED pipes
  /\ UNCHANGED <<rpc, task, future, failuresLeft, poolVars, cmdVars, thrVars>>
  /\ UNCHANGED hostVars

\* One write() of the copying program to descriptor 1 of what it has read.
echoWrite ==
  /\ child.state = "running"
  /\ child.cur = "echo"
  /\ child.held # <<>>
  /\ LET left == Len(child.held)
         room == PipeBufSize - Len(pipes["stdout"].buf)
     IN  IF ~hasPipe("stdout")
           THEN /\ child' = [child EXCEPT !.held = <<>>,
                                          !.written["stdout"] = @ + left]
                /\ UNCHANGED pipes
           ELSE IF pipes["stdout"].r = {}
             THEN /\ child' = terminated(child, "signal", 13,
                                         StatusSignaled(13))
                  /\ pipes' = closeChildFds(pipes)
             ELSE /\ room > 0
                  /\ \E k \in 1..Min(room, left) :
                       /\ pipes' = [pipes EXCEPT !["stdout"].buf =
                                      @ \o SubSeq(child.held, 1, k)]
                       /\ child' = [child EXCEPT
                                      !.held = SubSeq(@, k + 1, left),
                                      !.written["stdout"] = @ + k]
  /\ UNCHANGED <<rpc, task, future, failuresLeft, poolVars, cmdVars, thrVars>>
  /\ UNCHANGED hostVars

EchoNext ==
  \/ runStartEcho
  \/ readDataAsyncCall
  \/ writeDataAsyncInternal
  \/ \E failed \in BOOLEAN : waitpid(failed)
  \/ \E early \in BOOLEAN : futuresGet(early)
  \/ stdinFutureGet
  \/ echoRead
  \/ echoWrite
  \/ childExit
  \/ processTasks
  \/ \E id \in Streams, failed \in BOOLEAN : readDataStep(id, failed)
  \/ \E failed \in BOOLEAN : writeDataStep(failed)

\* The scheduler runs every thread that can take a step, the child
\* included; the kernel completes a system call that can complete.
EchoFairness ==
  /\ WF_vars(readDataAsyncCall)
  /\ WF_vars(writeDataAsyncInternal)
  /\ WF_vars(waitpid(FALSE))
  /\ WF_vars(futuresGet(FALSE))
  /\ WF_vars(stdinFutureGet)
  /\ WF_vars(echoRead)
  /\ WF_vars(echoWrite)
  /\ WF_vars(childExit)
  /\ WF_vars(processTasks)
  /\ \A id \in Streams : WF_vars(readDataStep(id, FALSE))
  /\ WF_vars(writeDataStep(FALSE))

EchoSpec == EchoInit /\ [][EchoNext]_vars /\ EchoFairness

(***************************************************************************)
(* A run without the wait flag (NoWaitSpec): run() returns after it has    *)
(* handed the child to the pool task, which goes on concurrently with the  *)
(* child.                                                                  *)
(***************************************************************************)
\* No system call fails for a reason outside the model; a write to a
\* descriptor that is not open or to a pipe without reader still fails.
NoWaitInit ==
  /\ \E payload \in StdinBuffers : Configured(FALSE, payload, 0, 0)
  /\ failuresLeft = 0

NoWaitNext ==
  \/ runStart
  \/ writeDataAsyncInternal
  \/ childWrite
  \/ childRead
  \/ childExit
  \/ childKilled
  \/ processTasks
  \/ \E failed \in BOOLEAN : writeDataStep(failed)

\* The scheduler runs the caller and the pool threads when they can take a
\* step; the kernel completes a system call that can complete.  Nothing is
\* required of the child: it may never read, never exit.
NoWaitFairness ==
  /\ WF_vars(writeDataAsyncInternal)
  /\ WF_vars(processTasks)
  /\ WF_vars(writeDataStep(FALSE))

NoWaitSpec == NoWaitInit /\ [][NoWaitNext]_vars /\ NoWaitFairness

(***************************************************************************)
(* The ThreadPoolExecutor on its own (PoolSpec): a pool created with any   *)
(* maximum number of idle threads, tasks that are submitted from outside   *)
(* the pool or from inside a running task, return or raise, and may wait   *)
(* for the future of a task they submitted, and the destructor.  The       *)
(* Command takes no step.  A task is a record: its state, the task whose   *)
(* future it waits for before it returns (0: none) and the task that       *)
(* submitted it (0: a thread outside the pool).                            *)
(***************************************************************************)
PoolTasks == 1..MaxTasks
PoolMaxIdleThreads == {0, 1, 2}

NoPoolTask == [state |-> "none", waitsFor |-> 0, from |-> 0]

\* The Command and its callers at rest, no run() under way, no child.
NothingRuns ==
  /\ HostIdle
  /\ wait = TRUE
  /\ arguments = (0 :> commandPath)
  /\ envVars = <<>>
  /\ stdinBuffer = <<>>
  /\ stderrCapacity = 0
  /\ stdoutCapacity = 0
  /\ exitCode = 0
  /\ stderrBuffer = <<>>
  /\ stdoutBuffer = <<>>
  /\ running = FALSE
  /\ mutex = NoThread
  /\ pc = [t \in Threads |-> "idle"]
  /\ call = [t \in Threads |-> NoCall]
  /\ snap = [t \in Threads |-> NoSnap]
  /\ updArgs = [t \in Threads |-> NoUpd]
  /\ pending = [t \in Threads |-> "none"]
  /\ lastReturn = [op |-> "none", res |-> "none"]
  /\ calls = 0
  /\ maxReqErr = 0
  /\ maxReqOut = 0
  /\ rpc = "idle"
  /\ child = NoChild
  /\ failuresLeft = 0

\* The state after ThreadPoolExecutor::ThreadPoolExecutor: nothing pending,
\* no thread, not shut down.
PoolInit ==
  /\ NothingRuns
  /\ pipes = [p \in Tasks |-> NoPipe]
  /\ task = [id \in PoolTasks |-> NoPoolTask]
  /\ future = [id \in PoolTasks |-> NoFuture]
  /\ pendingTasks = <<>>
  /\ idleThreads = 0
  /\ maxIdleThreads \in PoolMaxIdleThreads
  /\ shutdown = FALSE
  /\ threadsAtLoop = 0
  /\ threadsWaiting = 0

\* Tasks are numbered in the order of their submission.
Unsubmitted == {id \in PoolTasks : task[id].state = "none"}
NextTask == CHOOSE id \in Unsubmitted : \A other \in Unsubmitted : id <= other

\* ThreadPoolExecutor::submit called by `from`: the packaged task and its
\* future are made, the task is queued under the mutex and a thread is
\* woken up or created; submit returns the future.
submitTask(tk, from) ==
  /\ Unsubmitted # {}
  /\ ~shutdown
  /\ task' = [tk EXCEPT ![NextTask] = [state |-> "queued", waitsFor |-> 0,
                                       from |-> from]]
  /\ future' = [future EXCEPT ![NextTask] = [state |-> "pending",
                                             value |-> <<>>]]
  /\ submit(NextTask)
  /\ UNCHANGED <<rpc, child, pipes, failuresLeft, cmdVars, thrVars>>
  /\ UNCHANGED hostVars

\* A thread outside the pool submits a task.
poolSubmit == submitTask(task, 0)

\* A running task submits a task and will wait for its future before it
\* returns, as Command::run does when the device support runs it in the pool.
taskSubmit(p) ==
  /\ task[p].state = "running"
  /\ task[p].waitsFor = 0
  /\ Unsubmitted # {}
  /\ submitTask([task EXCEPT ![p].waitsFor = NextTask], p)

\* A task whose exception escapes into the worker: the thread is gone
\* without going through the end of the loop body.
taskReturnOfEscapes(id, throws) ==
  /\ task[id].state = "running"
  /\ task[id].waitsFor # 0 => future[task[id].waitsFor].state # "pending"
  /\ LET raised ==
           \/ throws
           \/ /\ task[id].waitsFor # 0
              /\ future[task[id].waitsFor].state = "exception"
     IN  /\ future' = [future EXCEPT ![id] =
                        [state |-> IF raised THEN "exception" ELSE "value",
                         value |-> <<>>]]
         /\ task' = [task EXCEPT ![id].state =
                                   IF raised THEN "over" ELSE "returned"]
  /\ UNCHANGED <<rpc, child, pipes, failuresLeft, poolVars, cmdVars, thrVars>>
  /\ UNCHANGED hostVars

\* The packaged task returns: the outcome of the function, a value or the
\* exception it raised, is stored in the shared state of its future, and the
\* lambda that the worker called returns normally.  A task that waits for
\* another task calls get() on its future first, which blocks while that
\* future is pending and rethrows its exception.
taskReturnOf(id, throws) ==
  /\ task[id].state = "running"
  /\ task[id].waitsFor # 0 => future[task[id].waitsFor].state # "pending"
  /\ LET raised ==
           \/ throws
           \/ /\ task[id].waitsFor # 0
              /\ future[task[id].waitsFor].state = "exception"
     IN  future' = [future EXCEPT ![id] =
                      [state |-> IF raised THEN "exception" ELSE "value",
                       value |-> <<>>]]
  /\ task' = [task EXCEPT ![id].state = "returned"]
  /\ UNCHANGED <<rpc, child, pipes, failuresLeft, poolVars, cmdVars, thrVars>>
  /\ UNCHANGED hostVars

\* The function of a task returns or raises.
taskReturn(id) == \E throws \in BOOLEAN : taskReturnOf(id, throws)

\* The worker whose task has returned takes the mutex again: the end of the
\* loop body of processTasks.
workerRelock(id) ==
  /\ task[id].state = "returned"
  /\ afterTask([task EXCEPT ![id].state = "over"])
  /\ UNCHANGED <<rpc, child, pipes, future, failuresLeft, cmdVars, thrVars>>
  /\ UNCHANGED hostVars

\* wakeUpCv.wait may return without a notification.
spuriousWakeUp ==
  /\ threadsWaiting > 0
  /\ ~shutdown
  /\ threadsWaiting' = threadsWaiting - 1
  /\ threadsAtLoop' = threadsAtLoop + 1
  /\ UNCHANGED <<rpc, child, pipes, task, future, failuresLeft, pendingTasks,
                 idleThreads, maxIdleThreads, shutdown, cmdVars, thrVars>>
  /\ UNCHANGED hostVars

\* ThreadPoolExecutor::~ThreadPoolExecutor, first part: the shutdown flag is
\* set under the mutex.
poolShutdown ==
  /\ ~shutdown
  /\ shutdown' = TRUE
  /\ UNCHANGED <<rpc, child, pipes, task, future, failuresLeft, pendingTasks,
                 idleThreads, maxIdleThreads, threadsAtLoop, threadsWaiting,
                 cmdVars, thrVars>>
  /\ UNCHANGED hostVars

\* ThreadPoolExecutor::~ThreadPoolExecutor, second part:
\* wakeUpCv.notify_all().  No thread starts to wait once the flag is set, so
\* threads are still blocked in wait exactly as long as the notification is
\* outstanding.
notify_all ==
  /\ shutdown
  /\ threadsWaiting > 0
  /\ threadsAtLoop' = threadsAtLoop + threadsWaiting
  /\ threadsWaiting' = 0
  /\ UNCHANGED <<rpc, child, pipes, task, future, failuresLeft, pendingTasks,
                 idleThreads, maxIdleThreads, shutdown, cmdVars, thrVars>>
  /\ UNCHANGED hostVars

PoolNext ==
  \/ poolSubmit
  \/ \E p \in PoolTasks : taskSubmit(p)
  \/ processTasks
  \/ \E id \in PoolTasks : taskReturn(id)
  \/ \E id \in PoolTasks : workerRelock(id)
  \/ spuriousWakeUp
  \/ poolShutdown
  \/ notify_all

\* The scheduler runs a thread that can take a step, tasks terminate, and the
\* destructor that has set the flag goes on to notify.  Nothing is required
\* of the submitters or of the owner of the pool.
PoolFairness ==
  /\ WF_vars(processTasks)
  /\ \A id \in PoolTasks : WF_vars(taskReturn(id))
  /\ \A id \in PoolTasks : WF_vars(workerRelock(id))
  /\ WF_vars(notify_all)

PoolSpec == PoolInit /\ [][PoolNext]_vars /\ PoolFairness

(***************************************************************************)
(* The two pipe classes on their own (ChannelSpec): one process holds an   *)
(* AccumulatingPipe for stderr and one for stdout, of any capacity, and a  *)
(* PreFilledPipe for stdin, of any buffer, and calls their operations in   *)
(* any order.  A pipe object is a record of its fields; `used` counts the  *)
(* operations that have been invoked on it.  lastReturn is the outcome of  *)
(* the latest call.  The tasks that the operations submit are queued and   *)
(* not run here.                                                           *)
(***************************************************************************)
Readers == {"stderr", "stdout"}
noFd == -1
readFdOf(p) == CHOOSE n \in {3, 5, 7} : n = (IF p = "stderr" THEN 3
                                             ELSE IF p = "stdout" THEN 5 ELSE 7)
writeFdOf(p) == readFdOf(p) + 1

\* AccumulatingPipe::AccumulatingPipe(capacity) for the stream p, pipe()
\* succeeding.
AccumulatingPipe(p, capacity) ==
  [capacity |-> capacity,
   readFd |-> IF capacity = 0 THEN noFd ELSE readFdOf(p),
   writeFd |-> IF capacity = 0 THEN noFd ELSE writeFdOf(p),
   valid |-> TRUE, used |-> 0]

\* PreFilledPipe::PreFilledPipe(buffer), pipe() succeeding.
PreFilledPipe(buffer) ==
  [buffer |-> buffer,
   readFd |-> IF buffer = <<>> THEN noFd ELSE readFdOf("stdin"),
   writeFd |-> IF buffer = <<>> THEN noFd ELSE writeFdOf("stdin"),
   valid |-> TRUE, used |-> 0]

ChannelInit ==
  /\ NothingRuns
  /\ \E errCapacity, outCapacity \in Capacities : \E buffer \in StdinBuffers :
       pipes = [p \in Tasks |->
                  IF p = "stderr" THEN AccumulatingPipe(p, errCapacity)
                  ELSE IF p = "stdout" THEN AccumulatingPipe(p, outCapacity)
                  ELSE PreFilledPipe(buffer)]
  /\ task = [id \in Tasks |-> NoTask]
  /\ future = [id \in Tasks |-> NoFuture]
  /\ pendingTasks = <<>>
  /\ idleThreads = 0
  /\ maxIdleThreads = sharedExecutorIdleThreads
  /\ shutdown = FALSE
  /\ threadsAtLoop = 0
  /\ threadsWaiting = 0

\* A call of `op` on the pipe object p ends with `res`; obj is the object
\* after the call.
channelReturn(p, op, res, obj) ==
  /\ calls < MaxCalls
  /\ calls' = calls + 1
  /\ pipes' = [pipes EXCEPT ![p] = [obj EXCEPT !.used = pipes[p].used + 1]]
  /\ lastReturn' = [op |-> op, res |-> res, on |-> p]
  /\ UNCHANGED <<rpc, child, failuresLeft, cmdVars, pc, call, snap, updArgs,
                 pending, maxReqErr, maxReqOut>>
  /\ UNCHANGED hostVars

\* The operation submits its task to the shared pool.
channelSubmit(p) ==
  /\ task' = [task EXCEPT ![p].state = "queued"]
  /\ future' = [future EXCEPT ![p] = [state |-> "pending", value |-> <<>>]]
  /\ submit(p)

\* AccumulatingPipe::readDataAsync.
readDataAsyncOn(p) ==
  IF ~pipes[p].valid
    THEN /\ channelReturn(p, "readDataAsync", "logic_error", pipes[p])
         /\ UNCHANGED <<task, future, poolVars>>
    ELSE IF pipes[p].capacity = 0
      THEN /\ channelReturn(p, "readDataAsync", "ok", pipes[p])
           /\ UNCHANGED <<task, future, poolVars>>
      ELSE /\ channelReturn(p, "readDataAsync", "ok",
                           [pipes[p] EXCEPT !.valid = FALSE, !.writeFd = noFd,
                                            !.readFd = noFd])
           /\ channelSubmit(p)

\* AccumulatingPipe::transferWriteFd.
transferWriteFdOn(p) ==
  /\ IF ~pipes[p].valid \/ pipes[p].capacity = 0
       THEN channelReturn(p, "transferWriteFd", "logic_error", pipes[p])
       ELSE channelReturn(p, "transferWriteFd", "ok",
                          [pipes[p] EXCEPT !.valid = FALSE, !.readFd = noFd,
                                           !.writeFd = noFd])
  /\ UNCHANGED <<task, future, poolVars>>

\* PreFilledPipe::transferReadFd.
transferReadFdOn(p) ==
  /\ IF ~pipes[p].valid \/ pipes[p].buffer = <<>>
       THEN channelReturn(p, "transferReadFd", "logic_error", pipes[p])
       ELSE channelReturn(p, "transferReadFd", "ok",
                          [pipes[p] EXCEPT !.valid = FALSE, !.writeFd = noFd,
                                           !.readFd = noFd])
  /\ UNCHANGED <<task, future, poolVars>>

\* PreFilledPipe::writeDataAsyncInternal(waitForPid, pid), which
\* writeDataAsync and writeDataAsyncAndWaitForPid call.
writeDataAsyncInternalOn(p, waitForPid) ==
  LET op == IF waitForPid THEN "writeDataAsyncAndWaitForPid"
                          ELSE "writeDataAsync"
  IN  IF ~pipes[p].valid
        THEN /\ channelReturn(p, op, "logic_error", pipes[p])
             /\ UNCHANGED <<task, future, poolVars>>
        ELSE IF pipes[p].buffer = <<>> /\ ~waitForPid
          THEN /\ channelReturn(p, op, "ok", [pipes[p] EXCEPT !.valid = FALSE])
               /\ UNCHANGED <<task, future, poolVars>>
          ELSE /\ channelReturn(p, op, "ok",
                               [pipes[p] EXCEPT !.valid = FALSE,
                                                !.readFd = noFd,
                                                !.writeFd = noFd,
                                                !.buffer = <<>>])
               /\ channelSubmit(p)

ChannelNext ==
  \/ \E p \in Readers : readDataAsyncOn(p)
  \/ \E p \in Readers : transferWriteFdOn(p)
  \/ transferReadFdOn("stdin")
  \/ \E waitForPid \in BOOLEAN : writeDataAsyncInternalOn("stdin", waitForPid)

ChannelSpec == ChannelInit /\ [][ChannelNext]_vars

(***************************************************************************)
(* run() from its entry to fork() in detail (PreForkSpec): the guard, the  *)
(* snapshot, the constructors of the three pipe objects one by one, each   *)
(* of which may fail in pipe(), then sysconf and fork, and the destructors *)
(* that the unwinding runs.  Here pipes[t] holds the locals of the run()   *)
(* of thread t: objs, the pipe objects constructed so far; created, the    *)
(* descriptors the run has got from pipe(); open, those of them that its   *)
(* objects still own; handed, those it has passed on to pool tasks, and    *)
(* tasks, the number of tasks it has submitted.  child[t] is the child     *)
(* that run has forked.  These keep the values of the latest run of the    *)
(* thread until its next run constructs its first pipe.  What the          *)
(* parent does after the fork is summarised as in Spec; RunSpec has it in  *)
(* detail.  The Command is configured before the first call.               *)
(***************************************************************************)
NoObjects == [p \in {} |-> NoPipe]
NoLocals == [objs |-> NoObjects, created |-> {}, open |-> {}, handed |-> {},
             tasks |-> 0]
PipeOrder == <<"stdin", "stderr", "stdout">>

PreForkInit ==
  /\ HostIdle
  /\ wait \in BOOLEAN
  /\ arguments = (0 :> commandPath)
  /\ envVars = <<>>
  /\ stdinBuffer \in StdinBuffers
  /\ stderrCapacity \in (IF wait THEN Capacities ELSE {0})
  /\ stdoutCapacity \in (IF wait THEN Capacities ELSE {0})
  /\ exitCode = 0
  /\ stderrBuffer = <<>>
  /\ stdoutBuffer = <<>>
  /\ running = FALSE
  /\ mutex = NoThread
  /\ pc = [t \in Threads |-> "idle"]
  /\ call = [t \in Threads |-> NoCall]
  /\ snap = [t \in Threads |-> NoSnap]
  /\ updArgs = [t \in Threads |-> NoUpd]
  /\ pending = [t \in Threads |-> "none"]
  /\ lastReturn = [op |-> "none", res |-> "none"]
  /\ calls = 0
  /\ maxReqErr = 0
  /\ maxReqOut = 0
  /\ rpc = "idle"
  /\ failuresLeft = 0
  /\ child = [t \in Threads |-> NoChild]
  /\ pipes = [t \in Threads |-> NoLocals]
  /\ task = [id \in Tasks |-> NoTask]
  /\ future = [id \in Tasks |-> NoFuture]
  /\ pendingTasks = <<>>
  /\ idleThreads = 0
  /\ maxIdleThreads = sharedExecutorIdleThreads
  /\ shutdown = FALSE
  /\ threadsAtLoop = 0
  /\ threadsWaiting = 0

\* The descriptors a constructor has stored in its object.
fdsOf(obj) == {fd \in {obj.readFd, obj.writeFd} : fd # noFd}

\* A destructor that closes the read end only.
pipeDestructorReadFdOnly(obj) == {fd \in {obj.readFd} : fd # noFd}

\* ~AccumulatingPipe and ~PreFilledPipe: the descriptors the destructor
\* closes.
pipeDestructor(obj) == {fd \in {obj.readFd, obj.writeFd} : fd # noFd}

\* The descriptors left after the destructors of all the objects have run.
unwindPipes(locals) ==
  locals.open \ UNION {pipeDestructor(locals.objs[p]) : p \in DOMAIN locals.objs}

\* The constructor of the next pipe object of run(): stdinPipe, stderrPipe,
\* stdoutPipe in this order.  When pipe() fails the constructor throws and
\* the objects constructed before are destroyed.
pipeConstructor(t) ==
  /\ pc[t] = "prefork"
  /\ DOMAIN pipes[t].objs # Tasks
  /\ LET locals == IF DOMAIN pipes[t].objs = {} THEN NoLocals ELSE pipes[t]
         p == PipeOrder[Cardinality(DOMAIN locals.objs) + 1]
         obj == IF p = "stdin" THEN PreFilledPipe(snap[t].stdinBuffer)
                ELSE IF p = "stderr"
                  THEN AccumulatingPipe(p, snap[t].stderrCapacity)
                  ELSE AccumulatingPipe(p, snap[t].stdoutCapacity)
     IN  \E ok \in BOOLEAN :
           /\ obj.readFd = noFd => ok
           /\ IF ok
                THEN /\ pipes' = [pipes EXCEPT ![t] =
                           [locals EXCEPT !.objs = (p :> obj) @@ locals.objs,
                                          !.created = locals.created
                                                        \cup fdsOf(obj),
                                          !.open = locals.open \cup fdsOf(obj)]]
                     /\ UNCHANGED <<pc, call, snap, pending, lastReturn>>
                ELSE /\ pipes' = [pipes EXCEPT ![t] =
                           [locals EXCEPT !.objs = NoObjects,
                                          !.open = unwindPipes(locals)]]
                     /\ Unwind(t, "system_error")
           /\ child' = [child EXCEPT ![t] =
                          IF DOMAIN pipes[t].objs = {} THEN NoChild ELSE @]
  /\ UNCHANGED <<rpc, task, future, failuresLeft, poolVars, cmdVars, updArgs,
                 calls, maxReqErr, maxReqOut>>
  /\ UNCHANGED hostVars

\* The descriptors the parent passes on to pool tasks right after the fork:
\* with the wait flag the read ends of the two output pipes and the write
\* end of the stdin pipe, without it the write end of the stdin pipe.
handedOver(objs) ==
  {fd \in (IF wait THEN {objs["stderr"].readFd, objs["stdout"].readFd}
                   ELSE {}) \cup {objs["stdin"].writeFd} : fd # noFd}

\* The number of tasks the parent submits right after the fork: with the
\* wait flag one for every pipe there is, without it the one that writes
\* and waits for the child.
tasksSubmitted(objs) ==
  IF wait THEN Cardinality({p \in Tasks : objs[p].readFd # noFd}) ELSE 1

\* sysconf(_SC_OPEN_MAX) and fork(), after the three constructors.
runSysconfFork(t) ==
  /\ pc[t] = "prefork"
  /\ DOMAIN pipes[t].objs = Tasks
  /\ \E result \in {"sysconf", "fork", "forked"} :
       CASE result = "sysconf" ->
              /\ pipes' = [pipes EXCEPT ![t].objs = NoObjects,
                                        ![t].open = unwindPipes(pipes[t])]
              /\ Unwind(t, "system_error")
              /\ UNCHANGED <<updArgs, child>>
         [] result = "fork" ->
              /\ pipes' = [pipes EXCEPT ![t].objs = NoObjects,
                                        ![t].open = unwindPipes(pipes[t])]
              /\ IF wait
                   THEN /\ updArgs' = [updArgs EXCEPT ![t] =
                             [set |-> TRUE, exitCode |-> exitCodeSystemError,
                              stdoutBuffer |-> <<>>, stderrBuffer |-> <<>>]]
                        /\ pending' = [pending EXCEPT ![t] = "system_error"]
                        /\ pc' = [pc EXCEPT ![t] = "upd_lock"]
                        /\ UNCHANGED <<call, lastReturn, snap>>
                   ELSE /\ Unwind(t, "system_error")
                        /\ UNCHANGED updArgs
              /\ UNCHANGED child
         [] OTHER ->
              /\ child' = [child EXCEPT ![t] =
                             [NoChild EXCEPT !.state = "running"]]
              /\ pipes' = [pipes EXCEPT
                             ![t].objs = NoObjects,
                             ![t].handed = handedOver(pipes[t].objs),
                             ![t].tasks = tasksSubmitted(pipes[t].objs),
                             ![t].open = unwindPipes(pipes[t])]
              /\ IF wait
                   THEN /\ pc' = [pc EXCEPT ![t] = "waitpid"]
                        /\ UNCHANGED <<call, lastReturn, snap, pending>>
                   ELSE Unwind(t, "none")
              /\ UNCHANGED updArgs
  /\ UNCHANGED <<rpc, task, future, failuresLeft, poolVars, cmdVars, calls,
                 maxReqErr, maxReqOut>>
  /\ UNCHANGED hostVars

PreForkNext ==
  \E t \in Threads :
    \/ runCall(t) \/ RunningFlagGuard(t) \/ Acquire(t) \/ runSnapshot(t)
    \/ pipeConstructor(t) \/ runSysconfFork(t)
    \/ runWaitPid(t) \/ updateResultState(t)
    \/ RunningFlagGuardRelease(t)

PreForkSpec == PreForkInit /\ [][PreForkNext]_vars



(***************************************************************************)
(* The CommandRegistry (RegistrySpec): threads call createCommand and      *)
(* getCommand concurrently.  commands maps an id to the Command that       *)
(* make_shared created for it: instance tells the objects apart,           *)
(* commandPath and wait are the arguments of its constructor.  Here mutex  *)
(* is CommandRegistry::mutex, and lastReturn.res is the pointer that       *)
(* getCommand returns or the outcome of createCommand.                     *)
(***************************************************************************)
fdVars == <<fdTable, closeCalls>>
recordVars == <<record, asyncExecutionFuture, runComplete, processCallback>>

CommandIds == {"a", "b"}
CommandPaths == {commandPath, "/bin/other"}
nullCommand == [instance |-> 0]

RegistryInit ==
  /\ NothingRuns
  /\ task = [id \in Tasks |-> NoTask]
  /\ future = [id \in Tasks |-> NoFuture]
  /\ pipes = [p \in Tasks |-> NoPipe]
  /\ pendingTasks = <<>>
  /\ idleThreads = 0
  /\ maxIdleThreads = sharedExecutorIdleThreads
  /\ shutdown = FALSE
  /\ threadsAtLoop = 0
  /\ threadsWaiting = 0

\* What a call of the registry leaves alone.
registryFrame ==
  UNCHANGED <<wait, arguments, envVars, stdinBuffer, stderrCapacity,
              stdoutCapacity, exitCode, stderrBuffer, stdoutBuffer, running,
              snap, updArgs, pending, maxReqErr, maxReqOut, ioVars, fdVars,
              recordVars>>

\* A thread calls getCommand(commandId) and takes the mutex.
getCommandCall(t) ==
  /\ \E commandId \in CommandIds :
       Enter(t, [op |-> "getCommand", commandId |-> commandId])
  /\ UNCHANGED <<commands, lastReturn>>
  /\ registryFrame

\* CommandRegistry::getCommand, under the mutex.
getCommand(t) ==
  /\ pc[t] = "getCommand"
  /\ LET commandId == call[t].commandId
     IN  IF commandId \notin DOMAIN commands
           THEN Leave(t, nullCommand)
           ELSE Leave(t, commands[commandId])
  /\ UNCHANGED <<commands, calls>>
  /\ registryFrame

\* A thread calls createCommand(commandId, commandPath, wait) and takes the
\* mutex.
createCommandCall(t) ==
  /\ \E commandId \in CommandIds, path \in CommandPaths, w \in BOOLEAN :
       Enter(t, [op |-> "createCommand", commandId |-> commandId,
                 commandPath |-> path, wait |-> w])
  /\ UNCHANGED <<commands, lastReturn>>
  /\ registryFrame

\* Mutant: createCommand stores the new Command under an id in use.
createCommandReplaces(t) ==
  /\ pc[t] = "createCommand"
  /\ LET c == call[t]
         command == [instance |-> calls, commandPath |-> c.commandPath,
                     wait |-> c.wait]
     IN  /\ commands' = (c.commandId :> command) @@ commands
         /\ Leave(t, "ok")
  /\ UNCHANGED calls
  /\ registryFrame

\* CommandRegistry::createCommand, under the mutex.  The new Command is
\* told apart from the others by the number of the call that created it.
createCommand(t) ==
  /\ pc[t] = "createCommand"
  /\ LET c == call[t]
         command == [instance |-> calls, commandPath |-> c.commandPath,
                     wait |-> c.wait]
     IN  IF c.commandId \in DOMAIN commands
           THEN /\ Leave(t, "runtime_error")
                /\ UNCHANGED commands
           ELSE /\ commands' = (c.commandId :> command) @@ commands
                /\ Leave(t, "ok")
  /\ UNCHANGED calls
  /\ registryFrame

RegistryNext ==
  \E t \in Threads :
    \/ getCommandCall(t) \/ getCommand(t)
    \/ createCommandCall(t) \/ createCommand(t)

RegistrySpec == RegistryInit /\ [][RegistryNext]_vars

(***************************************************************************)
(* A run record and its RunDeviceSupport (RecordSpec).  The record is      *)
(* processed by external triggers (a write to the record, a scan) and by   *)
(* the callback that the pool task requests; the database serialises the   *)
(* processings of one record, and an external trigger does nothing while   *)
(* PACT is set.  record.waitOption is the wait option of the record        *)
(* address, the member suspendProcessingUntilCommandTerminated.  A pool    *)
(* task is the lambda that processRecord submits: at is its position       *)
(* (call: before run(); run: inside run(); exchange, callback, return:     *)
(* the statements after it), threw tells whether run() raised.  run() is   *)
(* summarised by its guard and its outcome.  calls counts the external     *)
(* triggers.                                                               *)
(***************************************************************************)
NoLambda == [state |-> "none", at |-> "call", threw |-> FALSE]

RecordInit ==
  /\ wait \in BOOLEAN
  /\ arguments = (0 :> commandPath)
  /\ envVars = <<>>
  /\ stdinBuffer = <<>>
  /\ stderrCapacity = 0
  /\ stdoutCapacity = 0
  /\ exitCode = 0
  /\ stderrBuffer = <<>>
  /\ stdoutBuffer = <<>>
  /\ running = FALSE
  /\ mutex = NoThread
  /\ pc = [t \in Threads |-> "idle"]
  /\ call = [t \in Threads |-> NoCall]
  /\ snap = [t \in Threads |-> NoSnap]
  /\ updArgs = [t \in Threads |-> NoUpd]
  /\ pending = [t \in Threads |-> "none"]
  /\ lastReturn = [op |-> "none", res |-> "none"]
  /\ calls = 0
  /\ maxReqErr = 0
  /\ maxReqOut = 0
  /\ rpc = "idle"
  /\ child = NoChild
  /\ failuresLeft = 0
  /\ pipes = [p \in Tasks |-> NoPipe]
  /\ task = [id \in PoolTasks |-> NoLambda]
  /\ future = [id \in PoolTasks |-> NoFuture]
  /\ pendingTasks = <<>>
  /\ idleThreads = 0
  /\ maxIdleThreads = sharedExecutorIdleThreads
  /\ shutdown = FALSE
  /\ threadsAtLoop = 0
  /\ threadsWaiting = 0
  /\ fdTable = <<>>
  /\ closeCalls = <<>>
  /\ commands = <<>>
  /\ \E option \in BOOLEAN :
       /\ option => wait
       /\ record = [NoRecord EXCEPT !.waitOption = option]
  /\ asyncExecutionFuture = 0
  /\ runComplete = FALSE
  /\ processCallback = 0

\* What the record and its device support leave alone.
recordFrame ==
  UNCHANGED <<wait, arguments, envVars, stdinBuffer, stderrCapacity,
              stdoutCapacity, stderrBuffer, stdoutBuffer, mutex, snap,
              updArgs, pending, maxReqErr, maxReqOut, rpc, child, pipes,
              failuresLeft, fdVars, commands>>

\* No processing of the record is under way: the record is not locked.
recordUnlocked == \A t \in Threads : pc[t] = "idle"

\* An external trigger: a value is written to the record and the record is
\* processed, unless PACT is set.
dbPutField(t) ==
  /\ CanCall(t)
  /\ recordUnlocked
  /\ ~record.pact
  /\ calls' = calls + 1
  /\ \E value \in {0, 1} : record' = [record EXCEPT !.val = value]
  /\ pc' = [pc EXCEPT ![t] = "processRecord"]
  /\ call' = [call EXCEPT ![t] = [op |-> "processRecord", by |-> "external"]]
  /\ UNCHANGED <<running, exitCode, lastReturn, task, future, poolVars,
                 asyncExecutionFuture, runComplete, processCallback>>
  /\ recordFrame

\* The callback thread serves a request of callbackRequestProcessCallback:
\* it processes the record, whatever PACT is.
callbackProcess(t) ==
  /\ processCallback > 0
  /\ recordUnlocked
  /\ \A u \in Threads : t <= u
  /\ processCallback' = processCallback - 1
  /\ pc' = [pc EXCEPT ![t] = "processRecord"]
  /\ call' = [call EXCEPT ![t] = [op |-> "processRecord", by |-> "callback"]]
  /\ UNCHANGED <<running, exitCode, lastReturn, calls, task, future, poolVars,
                 record, asyncExecutionFuture, runComplete>>
  /\ recordFrame

\* The end of a processing that does not wait for the future.
processReturn(t, res) ==
  /\ pc' = [pc EXCEPT ![t] = "idle"]
  /\ call' = [call EXCEPT ![t] = NoCall]
  /\ lastReturn' = [op |-> "processRecord", res |-> res]

\* Mutant: processRecord starts a run whenever the run-complete flag is not
\* set, without looking at the future.
processRecordNoValidTest(t) ==
  /\ pc[t] = "processRecord"
  /\ IF asyncExecutionFuture # 0 /\ runComplete
       THEN /\ record' = [record EXCEPT !.pact = FALSE, !.val = 0, !.rval = 0]
            /\ pc' = [pc EXCEPT ![t] = "get"]
            /\ UNCHANGED <<call, lastReturn, running, exitCode, task, future,
                           poolVars, asyncExecutionFuture, runComplete>>
       ELSE /\ Unsubmitted # {}
            /\ runComplete' = FALSE
            /\ task' = [task EXCEPT ![NextTask].state = "queued"]
            /\ future' = [future EXCEPT ![NextTask] =
                            [state |-> "pending", value |-> <<>>]]
            /\ submit(NextTask)
            /\ asyncExecutionFuture' = NextTask
            /\ record' = [record EXCEPT !.pact = @ \/ record.waitOption,
                                        !.val = 1, !.rval = 1]
            /\ processReturn(t, "ok")
            /\ UNCHANGED <<running, exitCode>>
  /\ UNCHANGED <<calls, processCallback>>
  /\ recordFrame

\* RunDeviceSupport::processRecord up to its return or to the call of
\* asyncExecutionFuture.get().
processRecord(t) ==
  /\ pc[t] = "processRecord"
  /\ IF asyncExecutionFuture # 0
       THEN IF ~runComplete
              THEN /\ record' = [record EXCEPT !.val = 1, !.rval = 1]
                   /\ processReturn(t, "ok")
                   /\ UNCHANGED <<running, exitCode, task, future, poolVars,
                                  asyncExecutionFuture, runComplete>>
              ELSE /\ record' = [record EXCEPT !.pact = FALSE, !.val = 0,
                                               !.rval = 0]
                   /\ pc' = [pc EXCEPT ![t] = "get"]
                   /\ UNCHANGED <<call, lastReturn, running, exitCode, task,
                                  future, poolVars, asyncExecutionFuture,
                                  runComplete>>
       ELSE IF wait
         THEN /\ Unsubmitted # {}
              /\ runComplete' = FALSE
              /\ task' = [task EXCEPT ![NextTask].state = "queued"]
              /\ future' = [future EXCEPT ![NextTask] =
                              [state |-> "pending", value |-> <<>>]]
              /\ submit(NextTask)
              /\ asyncExecutionFuture' = NextTask
              /\ record' = [record EXCEPT !.pact = @ \/ record.waitOption,
                                          !.val = 1, !.rval = 1]
              /\ processReturn(t, "ok")
              /\ UNCHANGED <<running, exitCode>>
         ELSE /\ \E threw \in BOOLEAN :
                   /\ record' = [record EXCEPT
                        !.val = 0, !.rval = 0,
                        !.sevr = IF threw THEN "MAJOR_ALARM" ELSE @]
                   /\ processReturn(t, IF threw THEN "exception" ELSE "ok")
              /\ UNCHANGED <<running, exitCode, task, future, poolVars,
                             asyncExecutionFuture, runComplete>>
  /\ UNCHANGED <<calls, processCallback>>
  /\ recordFrame

\* asyncExecutionFuture.get() in processRecord: it blocks until the task has
\* returned, leaves the future without shared state and rethrows what the
\* task raised.
futureGet(t) ==
  /\ pc[t] = "get"
  /\ future[asyncExecutionFuture].state # "pending"
  /\ asyncExecutionFuture' = 0
  /\ IF future[asyncExecutionFuture].state = "exception"
       THEN /\ record' = [record EXCEPT !.sevr = "MAJOR_ALARM"]
            /\ processReturn(t, "exception")
       ELSE /\ processReturn(t, "ok")
            /\ UNCHANGED record
  /\ UNCHANGED <<running, exitCode, calls, task, future, poolVars,
                 runComplete, processCallback>>
  /\ recordFrame

\* The lambda calls getCommand()->run(): the guard of run() rejects the call
\* when a run is under way.
lambdaRunCall(id) ==
  /\ task[id].state = "running"
  /\ task[id].at = "call"
  /\ IF running
       THEN /\ task' = [task EXCEPT ![id].at = "exchange", ![id].threw = TRUE]
            /\ UNCHANGED running
       ELSE /\ task' = [task EXCEPT ![id].at = "run"]
            /\ running' = TRUE
  /\ UNCHANGED <<exitCode, thrVars, future, poolVars, recordVars>>
  /\ recordFrame

\* run() returns or raises: the child has terminated, the result is
\* recorded (after a failure possibly not) and the guard releases the flag.
lambdaRunReturn(id) ==
  /\ task[id].state = "running"
  /\ task[id].at = "run"
  /\ running' = FALSE
  /\ \E threw \in BOOLEAN :
       /\ task' = [task EXCEPT ![id].at = "exchange", ![id].threw = threw]
       /\ exitCode' \in (IF threw THEN {exitCode, exitCodeSystemError}
                                  ELSE {0})
  /\ UNCHANGED <<thrVars, future, poolVars, recordVars>>
  /\ recordFrame

\* this->runComplete.exchange(true, std::memory_order_acq_rel).
runCompleteExchange(id) ==
  /\ task[id].state = "running"
  /\ task[id].at = "exchange"
  /\ runComplete' = TRUE
  /\ task' = [task EXCEPT ![id].at = "callback"]
  /\ UNCHANGED <<running, exitCode, thrVars, future, poolVars, record,
                 asyncExecutionFuture, processCallback>>
  /\ recordFrame

\* ::callbackRequestProcessCallback(&this->processCallback, priorityMedium,
\* this->getRecord()).
callbackRequestProcessCallback(id) ==
  /\ task[id].state = "running"
  /\ task[id].at = "callback"
  /\ processCallback' = processCallback + 1
  /\ task' = [task EXCEPT ![id].at = "return"]
  /\ UNCHANGED <<running, exitCode, thrVars, future, poolVars, record,
                 asyncExecutionFuture, runComplete>>
  /\ recordFrame

\* The lambda returns or rethrows: the outcome is stored in the shared state
\* of the future.
lambdaReturn(id) ==
  /\ task[id].state = "running"
  /\ task[id].at = "return"
  /\ future' = [future EXCEPT ![id] =
                  [state |-> IF task[id].threw THEN "exception" ELSE "value",
                   value |-> <<>>]]
  /\ task' = [task EXCEPT ![id].state = "returned"]
  /\ UNCHANGED <<running, exitCode, thrVars, poolVars, recordVars>>
  /\ recordFrame

RecordNext ==
  \/ \E t \in Threads : dbPutField(t)
  \/ \E t \in Threads : callbackProcess(t)
  \/ \E t \in Threads : processRecord(t)
  \/ \E t \in Threads : futureGet(t)
  \/ processTasks
  \/ \E id \in PoolTasks : lambdaRunCall(id)
  \/ \E id \in PoolTasks : lambdaRunReturn(id)
  \/ \E id \in PoolTasks : runCompleteExchange(id)
  \/ \E id \in PoolTasks : callbackRequestProcessCallback(id)
  \/ \E id \in PoolTasks : lambdaReturn(id)
  \/ \E id \in PoolTasks : workerRelock(id)

\* The scheduler runs the pool threads and the callback thread when they can
\* take a step, and the executed program terminates.  Nothing is required
\* of the external triggers.
RecordFairness ==
  /\ WF_vars(processTasks)
  /\ \A t \in Threads : WF_vars(callbackProcess(t))
  /\ \A t \in Threads : WF_vars(processRecord(t))
  /\ \A t \in Threads : WF_vars(futureGet(t))
  /\ \A id \in PoolTasks :
       /\ WF_vars(lambdaRunCall(id))
       /\ WF_vars(lambdaRunReturn(id))
       /\ WF_vars(runCompleteExchange(id))
       /\ WF_vars(callbackRequestProcessCallback(id))
       /\ WF_vars(lambdaReturn(id))
       /\ WF_vars(workerRelock(id))

RecordSpec == RecordInit /\ [][RecordNext]_vars /\ RecordFairness

(***************************************************************************)
(* The descriptors of the child between fork() and execve() (ChildSpec).   *)
(* fdTable is the descriptor table of the process: of the parent when      *)
(* run() is called, of the child after the fork.  A descriptor is closed   *)
(* or refers to an end of one of the three pipes ("stdin.r", "stdin.w",    *)
(* ...), to the null device, to the standard stream the parent had there   *)
(* ("std") or to some other open file ("file").  pipes are the three pipe  *)
(* objects with the descriptor numbers that pipe() returned, the lowest    *)
(* two free ones.  rpc is the position of the code.  The parent may have   *)
(* been started with any of its standard streams closed.                   *)
(***************************************************************************)
Fds == 0 .. (OpenMax - 1)
STDIN_FILENO == 0
STDOUT_FILENO == 1
STDERR_FILENO == 2
StdFds == {STDIN_FILENO, STDOUT_FILENO, STDERR_FILENO}

\* The lowest descriptor that is not open, which open() and pipe() return.
lowestFree(tab) ==
  CHOOSE fd \in Fds : tab[fd] = "closed" /\ \A g \in Fds : g < fd => tab[g] # "closed"

\* ::close(fd); without effect on a descriptor that is not open.
close(tab, fd) == IF fd \in Fds THEN [tab EXCEPT ![fd] = "closed"] ELSE tab

\* ::dup2(oldFd, newFd); fails and leaves newFd alone when oldFd is not open.
dup2(tab, oldFd, newFd) ==
  IF oldFd \notin Fds \/ tab[oldFd] = "closed" THEN tab
  ELSE [tab EXCEPT ![newFd] = tab[oldFd]]

\* pipe(fileDescriptors) for the pipe p: the table afterwards.
pipeOf(tab, p) ==
  LET r == lowestFree(tab)
      tabR == [tab EXCEPT ![r] = p \o ".r"]
      w == lowestFree(tabR)
  IN  [tabR EXCEPT ![w] = p \o ".w"]

\* The pipe object that a constructor leaves for the pipe p, given the table
\* after it.
pipeObject(tab, p) ==
  IF \E fd \in Fds : tab[fd] = p \o ".r"
    THEN [readFd |-> CHOOSE fd \in Fds : tab[fd] = p \o ".r",
          writeFd |-> CHOOSE fd \in Fds : tab[fd] = p \o ".w",
          valid |-> TRUE]
    ELSE [readFd |-> noFd, writeFd |-> noFd, valid |-> TRUE]

ParentTables ==
  {tab \in [Fds -> {"closed", "std", "file"}] :
     /\ \A fd \in StdFds : tab[fd] \in {"closed", "std"}
     /\ tab[3] \in {"closed", "file"}
     /\ \A fd \in Fds : fd > 3 => tab[fd] = "closed"}

ChildInit ==
  /\ wait \in BOOLEAN
  /\ arguments = (0 :> commandPath)
  /\ envVars = <<>>
  /\ stdinBuffer \in StdinBuffers
  /\ stderrCapacity \in (IF wait THEN RunCapacities ELSE {0})
  /\ stdoutCapacity \in (IF wait THEN RunCapacities ELSE {0})
  /\ exitCode = 0
  /\ stderrBuffer = <<>>
  /\ stdoutBuffer = <<>>
  /\ running = FALSE
  /\ mutex = NoThread
  /\ pc = [t \in Threads |-> "idle"]
  /\ call = [t \in Threads |-> NoCall]
  /\ snap = [t \in Threads |-> NoSnap]
  /\ updArgs = [t \in Threads |-> NoUpd]
  /\ pending = [t \in Threads |-> "none"]
  /\ lastReturn = [op |-> "none", res |-> "none"]
  /\ calls = 0
  /\ maxReqErr = 0
  /\ maxReqOut = 0
  /\ rpc = "idle"
  /\ child = NoChild
  /\ failuresLeft = MaxFailures
  /\ pipes = [p \in Tasks |-> [readFd |-> noFd, writeFd |-> noFd,
                               valid |-> FALSE]]
  /\ task = [id \in Tasks |-> NoTask]
  /\ future = [id \in Tasks |-> NoFuture]
  /\ pendingTasks = <<>>
  /\ idleThreads = 0
  /\ maxIdleThreads = sharedExecutorIdleThreads
  /\ shutdown = FALSE
  /\ threadsAtLoop = 0
  /\ threadsWaiting = 0
  /\ fdTable \in ParentTables
  /\ closeCalls = <<>>
  /\ commands = <<>>
  /\ record = NoRecord
  /\ asyncExecutionFuture = 0
  /\ runComplete = FALSE
  /\ processCallback = 0

\* What the code between fork() and execve() leaves alone.
childFrame ==
  UNCHANGED <<cmdVars, thrVars, task, future, poolVars, closeCalls, commands,
              recordVars>>

\* run() up to fork(), all system calls succeeding: the constructors of
\* stdinPipe, stderrPipe and stdoutPipe in this order, sysconf and fork.
\* The child starts with a copy of the table of the parent.
childFork ==
  /\ rpc = "idle"
  /\ LET tabIn == IF stdinBuffer # <<>> THEN pipeOf(fdTable, "stdin")
                  ELSE fdTable
         tabErr == IF stderrCapacity # 0 THEN pipeOf(tabIn, "stderr")
                   ELSE tabIn
         tabOut == IF stdoutCapacity # 0 THEN pipeOf(tabErr, "stdout")
                   ELSE tabErr
     IN  /\ fdTable' = tabOut
         /\ pipes' = [p \in Tasks |-> pipeObject(tabOut, p)]
  /\ child' = [NoChild EXCEPT !.state = "running"]
  /\ rpc' = "closeStd"
  /\ UNCHANGED failuresLeft
  /\ childFrame

\* ::close(STDIN_FILENO); ::close(STDOUT_FILENO); ::close(STDERR_FILENO).
childCloseStd ==
  /\ rpc = "closeStd"
  /\ fdTable' = close(close(close(fdTable, STDIN_FILENO), STDOUT_FILENO),
                      STDERR_FILENO)
  /\ rpc' = "stdin"
  /\ UNCHANGED <<child, pipes, failuresLeft>>
  /\ childFrame

\* if (fd != std) { ::dup2(fd, std); ::close(fd); }
bindFd(tab, fd, std) == IF fd # std THEN close(dup2(tab, fd, std), fd) ELSE tab

\* A standard stream without pipe: open("/dev/null", ...), which may fail,
\* and the binding of the descriptor it returned.
bindNull(std, failed) ==
  /\ failed => failuresLeft > 0
  /\ failuresLeft' = IF failed THEN failuresLeft - 1 ELSE failuresLeft
  /\ fdTable' = IF failed THEN fdTable
                ELSE LET fd == lowestFree(fdTable)
                     IN  bindFd([fdTable EXCEPT ![fd] = "null"], fd, std)
  /\ UNCHANGED pipes

\* A standard stream with a pipe: transferReadFd or transferWriteFd closes
\* the other end and hands out the descriptor, which is then bound.
bindPipe(p, std, transferred, closedFd) ==
  /\ fdTable' = bindFd(close(fdTable, pipes[p][closedFd]),
                       pipes[p][transferred], std)
  /\ pipes' = [pipes EXCEPT ![p] = [readFd |-> noFd, writeFd |-> noFd,
                                    valid |-> FALSE]]
  /\ UNCHANGED failuresLeft

\* The binding of the standard input.
childBindStdin(failed) ==
  /\ rpc = "stdin"
  /\ IF stdinBuffer # <<>>
       THEN ~failed /\ bindPipe("stdin", STDIN_FILENO, "readFd", "writeFd")
       ELSE bindNull(STDIN_FILENO, failed)
  /\ rpc' = "stdout"
  /\ UNCHANGED child
  /\ childFrame

\* The binding of the standard output.
childBindStdout(failed) ==
  /\ rpc = "stdout"
  /\ IF stdoutCapacity # 0
       THEN ~failed /\ bindPipe("stdout", STDOUT_FILENO, "writeFd", "readFd")
       ELSE bindNull(STDOUT_FILENO, failed)
  /\ rpc' = "stderr"
  /\ UNCHANGED child
  /\ childFrame

\* The binding of the standard error.
childBindStderr(failed) ==
  /\ rpc = "stderr"
  /\ IF stderrCapacity # 0
       THEN ~failed /\ bindPipe("stderr", STDERR_FILENO, "writeFd", "readFd")
       ELSE bindNull(STDERR_FILENO, failed)
  /\ rpc' = "closeUnused"
  /\ UNCHANGED child
  /\ childFrame

\* for (int fd = 0; fd <= maxFd; ++fd): every descriptor but 0, 1 and 2 is
\* closed; the child is at execve.
childCloseUnused ==
  /\ rpc = "closeUnused"
  /\ fdTable' = [fd \in Fds |-> IF fd \in StdFds THEN fdTable[fd]
                                ELSE "closed"]
  /\ rpc' = "execve"
  /\ UNCHANGED <<child, pipes, failuresLeft>>
  /\ childFrame

ChildNext ==
  \/ childFork
  \/ childCloseStd
  \/ \E failed \in BOOLEAN : childBindStdin(failed)
  \/ \E failed \in BOOLEAN : childBindStdout(failed)
  \/ \E failed \in BOOLEAN : childBindStderr(failed)
  \/ childCloseUnused

ChildSpec == ChildInit /\ [][ChildNext]_vars

(***************************************************************************)
(* The pipe descriptors of a run in the parent (FdSpec): run() statement   *)
(* by statement as far as its pipe objects are concerned, with pipe(),     *)
(* sysconf, fork, waitpid, execve, read and write failing or not, and the  *)
(* pool tasks that take over descriptors.  fdTable is the descriptor table *)
(* of the parent and closeCalls[fd] the number of close() calls the run    *)
(* and its tasks have made on fd.  A pipe object has the fields of the     *)
(* class and `created`, the descriptors that its constructor got from      *)
(* pipe(); a task is a record of its state, the descriptor it owns and     *)
(* whether its read or write failed.  rpc is the position of run().  The   *)
(* child is summarised: it terminates, and the tasks end, at any time.     *)
(***************************************************************************)
NoObject == [readFd |-> noFd, writeFd |-> noFd, valid |-> FALSE, created |-> {}]
NoOwner == [state |-> "none", fd |-> noFd, failed |-> FALSE]

FdInit ==
  /\ wait \in BOOLEAN
  /\ arguments = (0 :> commandPath)
  /\ envVars = <<>>
  /\ stdinBuffer \in StdinBuffers
  /\ stderrCapacity \in (IF wait THEN RunCapacities ELSE {0})
  /\ stdoutCapacity \in (IF wait THEN RunCapacities ELSE {0})
  /\ exitCode = 0
  /\ stderrBuffer = <<>>
  /\ stdoutBuffer = <<>>
  /\ running = FALSE
  /\ mutex = NoThread
  /\ pc = [t \in Threads |-> "idle"]
  /\ call = [t \in Threads |-> NoCall]
  /\ snap = [t \in Threads |-> NoSnap]
  /\ updArgs = [t \in Threads |-> NoUpd]
  /\ pending = [t \in Threads |-> "none"]
  /\ lastReturn = [op |-> "none", res |-> "none"]
  /\ calls = 0
  /\ maxReqErr = 0
  /\ maxReqOut = 0
  /\ rpc = "stdinPipe"
  /\ child = NoChild
  /\ failuresLeft = MaxFailures
  /\ pipes = [p \in Tasks |-> NoObject]
  /\ task = [id \in Tasks |-> NoOwner]
  /\ future = [id \in Tasks |-> NoFuture]
  /\ pendingTasks = <<>>
  /\ idleThreads = 0
  /\ maxIdleThreads = sharedExecutorIdleThreads
  /\ shutdown = FALSE
  /\ threadsAtLoop = 0
  /\ threadsWaiting = 0
  /\ fdTable \in ParentTables
  /\ closeCalls = [fd \in Fds |-> 0]
  /\ commands = <<>>
  /\ record = NoRecord
  /\ asyncExecutionFuture = 0
  /\ runComplete = FALSE
  /\ processCallback = 0

\* What run() and its tasks leave alone here.
fdFrame ==
  UNCHANGED <<cmdVars, pc, call, snap, updArgs, pending, calls, maxReqErr,
              maxReqOut, child, commands, recordVars>>

\* The descriptor table and the close() calls after ::close(fd), which is
\* without effect for fd = -1.
closeIn(st, fd) ==
  IF fd = noFd THEN st
  ELSE [tab |-> close(st.tab, fd),
        calls |-> [st.calls EXCEPT ![fd] = @ + 1]]

\* ~AccumulatingPipe and ~PreFilledPipe: if (readFd != -1) close(readFd);
\* if (writeFd != -1) close(writeFd).
pipeObjectDestructor(st, obj) == closeIn(closeIn(st, obj.readFd), obj.writeFd)

\* run() is left, by return or by an exception: the destructors of the
\* three pipe objects run (an object not constructed yet has no descriptor)
\* on the objects as they are then, objs.
fdLeave(st, objs, res, what) ==
  LET st1 == pipeObjectDestructor(st, objs["stdout"])
      st2 == pipeObjectDestructor(st1, objs["stderr"])
      st3 == pipeObjectDestructor(st2, objs["stdin"])
  IN  /\ fdTable' = st3.tab
      /\ closeCalls' = st3.calls
      /\ rpc' = "done"
      /\ lastReturn' = [op |-> "run", res |-> res, what |-> what]

\* run() goes on at `next`.
fdGoOn(st, next) ==
  /\ fdTable' = st.tab
  /\ closeCalls' = st.calls
  /\ rpc' = next
  /\ UNCHANGED lastReturn

Now == [tab |-> fdTable, calls |-> closeCalls]

\* The task `id` is submitted and owns the descriptor fd.
fdSubmit(id, fd) ==
  /\ task' = [task EXCEPT ![id] = [state |-> "queued", fd |-> fd,
                                   failed |-> FALSE]]
  /\ future' = [future EXCEPT ![id] = [state |-> "pending", value |-> <<>>]]
  /\ submit(id)

CtorOrder == [stdinPipe |-> "stdin", stderrPipe |-> "stderr",
              stdoutPipe |-> "stdout"]
CtorNext == [stdinPipe |-> "stderrPipe", stderrPipe |-> "stdoutPipe",
             stdoutPipe |-> "fork"]

\* The constructor of the next pipe object; failed: pipe() returns -1.
fdPipeConstructor(failed) ==
  /\ rpc \in DOMAIN CtorOrder
  /\ failed => failuresLeft > 0 /\ hasPipe(CtorOrder[rpc])
  /\ failuresLeft' = IF failed THEN failuresLeft - 1 ELSE failuresLeft
  /\ LET p == CtorOrder[rpc]
         tab == pipeOf(fdTable, p)
         obj == pipeObject(tab, p)
     IN  IF failed
           THEN /\ UNCHANGED pipes
                /\ fdLeave(Now, pipes, "system_error", "pipe")
           ELSE IF hasPipe(p)
             THEN /\ pipes' = [pipes EXCEPT ![p] =
                       [readFd |-> obj.readFd, writeFd |-> obj.writeFd,
                        valid |-> TRUE,
                        created |-> {obj.readFd, obj.writeFd}]]
                  /\ fdGoOn([Now EXCEPT !.tab = tab], CtorNext[rpc])
             ELSE /\ pipes' = [pipes EXCEPT ![p].valid = TRUE]
                  /\ fdGoOn(Now, CtorNext[rpc])
  /\ UNCHANGED <<task, future, poolVars>>
  /\ fdFrame

\* sysconf(_SC_OPEN_MAX) and fork().
fdFork(result) ==
  /\ rpc = "fork"
  /\ result # "forked" => failuresLeft > 0
  /\ failuresLeft' = IF result # "forked" THEN failuresLeft - 1
                     ELSE failuresLeft
  /\ IF result # "forked"
       THEN fdLeave(Now, pipes, "system_error", result)
       ELSE fdGoOn(Now, IF wait THEN "readErr" ELSE "writeIn")
  /\ UNCHANGED <<pipes, task, future, poolVars>>
  /\ fdFrame

\* Mutant: readDataAsync leaves the descriptor it has handed to the task in
\* the object.
handedOffKeepsFd(obj) == [obj EXCEPT !.valid = FALSE, !.writeFd = noFd]

\* The pipe object after the start of its task: both descriptors are -1.
handedOff(obj) ==
  [obj EXCEPT !.valid = FALSE, !.readFd = noFd, !.writeFd = noFd]

\* stderrPipe.readDataAsync() and stdoutPipe.readDataAsync().
fdReadDataAsync ==
  /\ rpc \in {"readErr", "readOut"}
  /\ LET p == IF rpc = "readErr" THEN "stderr" ELSE "stdout"
         next == IF rpc = "readErr" THEN "readOut" ELSE "writeIn"
     IN  IF capacityOf(p) = 0
           THEN /\ fdGoOn(Now, next)
                /\ UNCHANGED <<pipes, task, future, poolVars>>
           ELSE /\ fdGoOn(closeIn(Now, pipes[p].writeFd), next)
                /\ fdSubmit(p, pipes[p].readFd)
                /\ pipes' = [pipes EXCEPT ![p] = handedOff(@)]
  /\ UNCHANGED failuresLeft
  /\ fdFrame

\* stdinPipe.writeDataAsync() with the wait flag,
\* stdinPipe.writeDataAsyncAndWaitForPid(childPid) without it, after which
\* run() returns.
fdWriteDataAsync ==
  /\ rpc = "writeIn"
  /\ LET waitForPid == ~wait
     IN  IF stdinBuffer = <<>> /\ ~waitForPid
           THEN /\ pipes' = [pipes EXCEPT !["stdin"].valid = FALSE]
                /\ fdGoOn(Now, "waitpid")
                /\ UNCHANGED <<task, future, poolVars>>
           ELSE LET objs == [pipes EXCEPT !["stdin"] = handedOff(@)]
                IN  /\ pipes' = objs
                    /\ fdSubmit("stdin", pipes["stdin"].writeFd)
                    /\ IF wait
                         THEN fdGoOn(closeIn(Now, pipes["stdin"].readFd),
                                     "waitpid")
                         ELSE fdLeave(closeIn(Now, pipes["stdin"].readFd),
                                      objs, "ok", "none")
  /\ UNCHANGED failuresLeft
  /\ fdFrame

\* waitpid and the test of the shared segment.
fdWaitpid(result) ==
  /\ rpc = "waitpid"
  /\ result = "waitpid" => failuresLeft > 0
  /\ failuresLeft' = IF result = "waitpid" THEN failuresLeft - 1
                     ELSE failuresLeft
  /\ IF result = "reaped"
       THEN fdGoOn(Now, "get")
       ELSE fdLeave(Now, pipes, "system_error", result)
  /\ UNCHANGED <<pipes, task, future, poolVars>>
  /\ fdFrame

\* The get() of the futures: run() is left with the exception of a reader
\* as soon as the future that is asked first holds it, and otherwise when
\* the three tasks are over, with the exception of the writer if it failed.
fdFuturesGet ==
  /\ rpc = "get"
  /\ \/ /\ \E p \in Readers : future[p].state = "exception"
        /\ fdLeave(Now, pipes, "system_error", "read")
     \/ /\ \A p \in Tasks : future[p].state # "pending"
        /\ \A p \in Readers : future[p].state # "exception"
        /\ IF future["stdin"].state = "exception"
             THEN fdLeave(Now, pipes, "system_error", "write")
             ELSE fdLeave(Now, pipes, "ok", "none")
  /\ UNCHANGED <<pipes, task, future, poolVars, failuresLeft>>
  /\ fdFrame

\* The end of readData and of writeData: the task closes its descriptor on
\* both paths, and returns or raises.
fdTaskEnd(id, failed) ==
  /\ task[id].state = "running"
  /\ fdTable' = closeIn(Now, task[id].fd).tab
  /\ closeCalls' = closeIn(Now, task[id].fd).calls
  /\ future' = [future EXCEPT ![id] =
                  [state |-> IF failed \/ task[id].fd = noFd
                               THEN "exception" ELSE "value",
                   value |-> <<>>]]
  /\ afterTask([task EXCEPT ![id].state = "over", ![id].failed = failed])
  /\ UNCHANGED <<rpc, lastReturn, pipes, failuresLeft>>
  /\ fdFrame

\* A pool thread takes the next task.
fdProcessTasks ==
  /\ threadsAtLoop > 0
  /\ threadsAtLoop' = threadsAtLoop - 1
  /\ loopHead(task)
  /\ UNCHANGED <<rpc, lastReturn, pipes, future, failuresLeft, fdTable,
                 closeCalls, maxIdleThreads, shutdown>>
  /\ fdFrame

FdNext ==
  \/ \E failed \in BOOLEAN : fdPipeConstructor(failed)
  \/ \E result \in {"sysconf", "fork", "forked"} : fdFork(result)
  \/ fdReadDataAsync
  \/ fdWriteDataAsync
  \/ \E result \in {"waitpid", "execve", "reaped"} : fdWaitpid(result)
  \/ fdFuturesGet
  \/ fdProcessTasks
  \/ \E id \in Tasks, failed \in BOOLEAN : fdTaskEnd(id, failed)

FdSpec == FdInit /\ [][FdNext]_vars

(***************************************************************************)
(* Properties of the Command object under concurrent callers (Spec).       *)
(***************************************************************************)
\* A thread is inside a synchronous run: its guard has set the running flag
\* and has not released it yet.
InFlight(t) ==
  pc[t] \in {"snap_lock", "snap", "prefork", "waitpid", "upd_lock", "upd",
             "rel_lock", "rel"}

\* A thread is inside a block of code that reads or writes mutable fields of
\* the Command.
Accessing(t) ==
  pc[t] \in {"setArgument", "setEnvVar", "setStdInBuffer",
             "ensureStdErrCapacity", "ensureStdOutCapacity", "getExitCode",
             "getStdErrBuffer", "getStdOutBuffer", "guard", "snap", "upd",
             "rel"}

\* C1: with the wait flag, at most one call of run() is between the
\* check-and-set of the running flag and the release of that flag.
C1_AtMostOneSynchronousRun ==
  wait => Cardinality({t \in Threads : InFlight(t)}) <= 1

\* A second caller is inside the guard constructor while a run is in flight.
C1_Witness ==
  /\ wait
  /\ \E t, u \in Threads : t # u /\ pc[t] = "waitpid" /\ pc[u] = "guard"

\* C2: a run() called while another run is in flight is rejected with
\* invalid_argument before it snapshots or forks, it changes nothing of the
\* Command or of the first run, the flag stays set while the first run is in
\* flight, and the result the first run recorded stays in place until that
\* run ends.
C2_SecondRunRejected ==
  [][\A t \in Threads :
       /\ (pc[t] = "guard" /\ running /\ pc'[t] # pc[t]) =>
            /\ pc'[t] = "idle"
            /\ lastReturn' = [op |-> "run", res |-> "invalid_argument"]
            /\ snap'[t] = NoSnap
            /\ UNCHANGED <<running, exitCode, stdoutBuffer, stderrBuffer,
                           arguments, envVars, stdinBuffer, stderrCapacity,
                           stdoutCapacity, updArgs, pending>>
            /\ \A u \in Threads \ {t} : snap'[u] = snap[u] /\ pc'[u] = pc[u]
       /\ (wait /\ InFlight(t))' => running'
       /\ (wait /\ pc[t] \in {"rel_lock", "rel"} /\ updArgs[t].set)' =>
            /\ exitCode' = updArgs'[t].exitCode
            /\ stdoutBuffer' = updArgs'[t].stdoutBuffer
            /\ stderrBuffer' = updArgs'[t].stderrBuffer
    ]_vars

\* A call was rejected and afterwards the run that was in flight recorded the
\* result of a child that exited with 255.
C2_Witness ==
  /\ lastReturn = [op |-> "run", res |-> "invalid_argument"]
  /\ \E t \in Threads : /\ pc[t] = "rel_lock"
                        /\ updArgs[t].set
                        /\ exitCode = 255

\* C3: with the wait flag, the running flag is false whenever no run is in
\* flight, whatever path the last run left by, and a run() is only rejected
\* while another thread's run is in flight.
C3_FlagReleasedOnAllPaths ==
  [][/\ (wait /\ \A t \in Threads : ~InFlight(t))' => ~running'
     /\ \A t \in Threads :
          (pc[t] = "guard" /\ pc'[t] = "idle") =>
             \E u \in Threads \ {t} : InFlight(u)
    ]_vars

\* A run raised a system error and a later run has been accepted.
C3_Witness ==
  /\ wait
  /\ lastReturn = [op |-> "run", res |-> "system_error"]
  /\ \E t \in Threads : pc[t] = "prefork"

\* C5: the values a run uses are the configuration at the instant of its
\* snapshot, they include every capacity request that had completed when
\* run() was called, and no later step changes them while the run lasts.
C5_SnapshotIsConfiguration ==
  [][\A t \in Threads :
       /\ (pc[t] = "snap" /\ pc'[t] = "prefork") =>
            /\ snap'[t].cmdArgs = prepareArguments(arguments)
            /\ snap'[t].cmdEnv = prepareEnvironment(envVars)
            /\ snap'[t].stdinBuffer = stdinBuffer
            /\ snap'[t].stderrCapacity = stderrCapacity
            /\ snap'[t].stdoutCapacity = stdoutCapacity
            /\ snap'[t].stderrCapacity >= call[t].doneErr
            /\ snap'[t].stdoutCapacity >= call[t].doneOut
       /\ (snap[t].taken /\ pc'[t] # "idle") => snap'[t] = snap[t]
    ]_vars

\* C6: a thread that is reading or writing mutable fields of the Command
\* holds the Command's mutex.
C6_FieldAccessUnderMutex ==
  \A t \in Threads : Accessing(t) => mutex = t

\* C7: a capacity never decreases, and when no capacity request is in
\* progress each capacity is the maximum of the values requested so far.
C7_CapacityIsMaximum ==
  [][/\ stdoutCapacity' >= stdoutCapacity
     /\ stderrCapacity' >= stderrCapacity
     /\ (\A t \in Threads :
           pc'[t] \notin {"ensureStdErrCapacity", "ensureStdOutCapacity"}) =>
          /\ stdoutCapacity' = maxReqOut'
          /\ stderrCapacity' = maxReqErr'
    ]_vars

\* C8: a non-zero capacity implies the wait flag; without the wait flag a
\* request is rejected exactly when it is non-zero, and both capacities
\* stay 0.
C8_CapacityImpliesWait ==
  /\ (stdoutCapacity > 0 \/ stderrCapacity > 0) => wait
  /\ (~wait /\ lastReturn.op \in {"ensureStdErrCapacity",
                                  "ensureStdOutCapacity"}) =>
       /\ lastReturn.res = "invalid_argument" <=> lastReturn.capacity # 0
       /\ lastReturn.res = "ok" <=> lastReturn.capacity = 0

\* Without the wait flag a non-zero stderr capacity was requested and
\* rejected.
C8_Witness ==
  /\ ~wait
  /\ lastReturn = [op |-> "ensureStdErrCapacity", res |-> "invalid_argument",
                   capacity |-> 2]

(***************************************************************************)
(* Properties of one call of run() (RunSpec, FairRunSpec).                 *)
(***************************************************************************)
\* The child is gone; with the wait flag only the caller's waitpid reaps it.
Terminated == child.state \in {"zombie", "reaped"}
Reaped == child.state = "reaped"

\* Both reader futures hold a value.
ReadersOk == \A s \in Streams : future[s].state = "value"

\* The buffer the Command holds for a stream, and the bytes the child wrote
\* to it.
Recorded(s) == IF s = "stdout" THEN stdoutBuffer ELSE stderrBuffer
Written(s) == ChildBytes(s, 0, child.written[s])

AllStarted == \A id \in Tasks : future[id].state # "none"

\* C10: the caller blocks in waitpid only after the readers and the writer
\* were started; a reader that has returned a value has emptied its pipe up
\* to end-of-file; and in wait mode a child that has been forked is gone and
\* run() is over after finitely many steps, however much the child writes.
C10_NoDeadlockOnFullPipe ==
  /\ [](rpc = "waitpid" => AllStarted)
  /\ [](\A s \in Streams :
          (hasPipe(s) /\ future[s].state = "value") =>
             pipes[s].buf = <<>> /\ pipes[s].w = {})
  /\ (wait /\ child.state = "running") ~>
       (rpc = "done" /\ child.state # "running")

\* A child that wrote more than capacity plus pipe buffer to both streams
\* has exited and run() has returned normally.
C10_Witness ==
  /\ wait /\ rpc = "done" /\ lastReturn.res = "ok"
  /\ child.how = "exit"
  /\ \A s \in Streams :
       /\ capacityOf(s) > 0
       /\ child.written[s] = MaxOutput
       /\ MaxOutput > capacityOf(s) + PipeBufSize

(***************************************************************************)
(* Properties of a run of the copying program (EchoSpec).                  *)
(***************************************************************************)
\* C11: in wait mode, with the payload p on standard input and the capacity
\* c for standard output, a run of a program that copies its input to its
\* output until end of file terminates, and the recorded output is p when
\* c >= |p| and the first c bytes of p otherwise, whatever the length of p.
C11_RoundTrip ==
  (child.state = "running")
    ~> (/\ rpc = "done"
        /\ lastReturn = [op |-> "run", res |-> "ok", what |-> "none"]
        /\ stdoutBuffer = Take(stdinBuffer, stdoutCapacity))

\* A payload longer than the pipe holds came back whole.
C11_Witness ==
  /\ rpc = "done"
  /\ child.state = "reaped"
  /\ Len(stdinBuffer) > PipeBufSize
  /\ stdoutCapacity >= Len(stdinBuffer)
  /\ stdoutBuffer = stdinBuffer

(***************************************************************************)
(* Properties of the configuration a run uses (ConfigSpec).                *)
(***************************************************************************)
MaxOf(S) == CHOOSE i \in S : \A j \in S : j <= i

\* C12: after any sequence of setArgument calls the argv of a run has the
\* length max(set position) + 1 (1 when no position was set), argv[0] is the
\* command path, every set position holds the value set last and every
\* unset position below the maximum holds the empty string.  A completed
\* setArgument(index, value) makes value the one stored at index and leaves
\* the other positions alone; the snapshot of run() turns the stored
\* positions into argv.
C12_ArgvOfArguments ==
  [][\A t \in Threads :
       /\ (pc[t] = "setArgument" /\ pc'[t] = "idle") =>
            /\ DOMAIN arguments' = DOMAIN arguments \cup {call[t].index}
            /\ arguments'[call[t].index] = call[t].value
            /\ \A j \in DOMAIN arguments \ {call[t].index} :
                 arguments'[j] = arguments[j]
       /\ (pc[t] = "snap" /\ pc'[t] = "prefork") =>
            LET argv == snap'[t].cmdArgs
                set == DOMAIN arguments \ {0}
                length == IF set = {} THEN 1 ELSE MaxOf(set) + 1
            IN  /\ DOMAIN argv = 0..(length - 1)
                /\ argv[0] = commandPath
                /\ \A i \in 1..(length - 1) :
                     argv[i] = IF i \in set THEN arguments[i] ELSE ""
    ]_vars

\* A run took its snapshot after positions 1 and 3 were set: argv has four
\* entries and the one at position 2 is empty.
C12_Witness ==
  \E t \in Threads :
    /\ snap[t].taken
    /\ DOMAIN snap[t].cmdArgs = 0..3
    /\ snap[t].cmdArgs[0] = commandPath
    /\ snap[t].cmdArgs[1] # ""
    /\ snap[t].cmdArgs[2] = ""
    /\ snap[t].cmdArgs[3] # ""

\* C13: setArgument with a position <= 0 is rejected at the call with an
\* error and leaves the argument map as it was: only a call with a positive
\* index gets as far as the mutex, a call that does not is answered with
\* invalid_argument without any change of the Command, position 0 always
\* holds the command path and no negative position is ever stored.
C13_NonPositiveIndexRejected ==
  /\ [](/\ 0 \in DOMAIN arguments
        /\ arguments[0] = commandPath
        /\ \A i \in DOMAIN arguments : i >= 0)
  /\ [][\A t \in Threads :
          /\ (pc[t] = "idle" /\ pc'[t] = "setArgument") =>
               call'[t].index > 0
          /\ (CanCall(t) /\ calls' = calls + 1 /\ pc' = pc) =>
               /\ lastReturn' = [op |-> "setArgument",
                                 res |-> "invalid_argument"]
               /\ arguments' = arguments
               /\ mutex' = mutex
       ]_vars

\* A call with a non-positive index was rejected after position 2 had been
\* set: the map still holds position 2 and the command path.
C13_Witness ==
  /\ lastReturn = [op |-> "setArgument", res |-> "invalid_argument"]
  /\ DOMAIN arguments = {0, 2}
  /\ arguments[0] = commandPath

\* The ambient environments the merge is checked for: the one of the model
\* and every array of up to MaxEnviron strings, with names that are and
\* are not overridden, twice the same name, and a string without '='.
EnvStrings == {<<"A", "=", "0">>, <<"A", "=", "2">>, <<"B", "=", "0">>,
               <<"J">>}
Environs ==
  {environ} \cup UNION {[1..n -> EnvStrings] : n \in 0..MaxEnviron}

\* The name of an environment string, <<>> for a string without '='.
NameOf(envString) ==
  SubSeq(envString, 1, find_first_of(envString, "=") - 1)

\* out has, for every name of the map, exactly one string with that name,
\* which is NAME=VALUE with the value of the map.
OverridesOnce(over, out) ==
  \A name \in DOMAIN over :
    /\ Cardinality({i \in 1..Len(out) : NameOf(out[i]) = name}) = 1
    /\ \E i \in 1..Len(out) : out[i] = name \o <<"=">> \o over[name]

\* The strings of env whose name the map does not have.
NotOverridden(env, over) ==
  LET Other(envString) == NameOf(envString) \notin DOMAIN over
  IN  SelectSeq(env, Other)

\* The strings of env that have the form NAME=VALUE.
WellFormed(env) ==
  LET HasName(envString) == find_first_of(envString, "=") # 0
  IN  SelectSeq(env, HasName)

\* C14 as stated: for every ambient environment and every override map the
\* environment of the child is the ambient one with the overrides in place
\* of the ambient strings of the same name: every override name occurs
\* exactly once, with the override value, and every ambient string that is
\* not overridden is passed on unchanged.
C14_EnvironmentMerge ==
  [][\A t \in Threads :
       (pc[t] = "snap" /\ pc'[t] = "prefork") =>
         /\ OverridesOnce(envVars, snap'[t].cmdEnv)
         /\ NotOverridden(snap'[t].cmdEnv, envVars)
              = NotOverridden(environ, envVars)
         /\ \A env \in Environs :
              LET out == prepareEnvironmentOf(env, envVars)
              IN  /\ OverridesOnce(envVars, out)
                  /\ NotOverridden(out, envVars) = NotOverridden(env, envVars)
    ]_vars

\* C14, amended: as above, for the ambient strings of the form NAME=VALUE;
\* an ambient string without '=' is not passed on.
C14_EnvironmentMergeOfWellFormed ==
  [][\A t \in Threads :
       (pc[t] = "snap" /\ pc'[t] = "prefork") =>
         /\ OverridesOnce(envVars, snap'[t].cmdEnv)
         /\ NotOverridden(snap'[t].cmdEnv, envVars)
              = NotOverridden(WellFormed(environ), envVars)
         /\ \A env \in Environs :
              LET out == prepareEnvironmentOf(env, envVars)
              IN  /\ OverridesOnce(envVars, out)
                  /\ NotOverridden(out, envVars)
                       = NotOverridden(WellFormed(env), envVars)
    ]_vars

\* A run took its snapshot with A overridden: B=0 is passed on, A=0 is
\* replaced by A=1.
C14_Witness ==
  \E t \in Threads :
    /\ snap[t].taken
    /\ snap[t].cmdEnv = << <<"B", "=", "0">>, <<"A", "=", "1">> >>

(***************************************************************************)
(* Properties of commands that do not wait (Spec, RunSpec).                *)
(***************************************************************************)
\* C15: when the wait flag is not set, after any sequence of calls of run(),
\* whatever becomes of fork, execve and the child, and of calls of the
\* setters, the exit code is 0 and both output buffers are empty, and that
\* is what the getters return.
C15_NoWaitResultIsInitial ==
  ~wait =>
    /\ exitCode = 0
    /\ stderrBuffer = <<>>
    /\ stdoutBuffer = <<>>
    /\ lastReturn.op = "getExitCode" => lastReturn.value = 0
    /\ lastReturn.op \in {"getStdErrBuffer", "getStdOutBuffer"} =>
         lastReturn.value = <<>>

\* Without the wait flag, after a call of setArgument, a run has raised
\* an error and getExitCode is being answered.
C15_Witness ==
  /\ ~wait
  /\ DOMAIN arguments # {0}
  /\ lastReturn = [op |-> "run", res |-> "system_error"]
  /\ exitCode = 0
  /\ \E t \in Threads : pc[t] = "getExitCode"

C17_NoWaitRunReturns ==
  /\ []((~wait /\ rpc = "writeIn") => ENABLED writeDataAsyncInternal)
  /\ (~wait /\ rpc = "writeIn")
       ~> (rpc = "done"
           /\ lastReturn = [op |-> "run", res |-> "ok", what |-> "none"])

\* run() has returned; the child is running and has read nothing, and
\* nothing of the payload has been written.
C17_Witness ==
  /\ ~wait
  /\ rpc = "done"
  /\ lastReturn = [op |-> "run", res |-> "ok", what |-> "none"]
  /\ child.state = "running"
  /\ stdinBuffer # <<>>
  /\ task["stdin"].state # "over"
  /\ task["stdin"].total = 0

\* C18: without the wait flag, once run() has attempted fork the failure of
\* fork is the only error it raises: when the child was forked run()
\* returns normally, and neither a failure of execve nor a failure of the
\* write of the pool task is raised or recorded afterwards.
C18_NoWaitOnlyForkRaises ==
  (~wait /\ lastReturn.op = "run") =>
    /\ lastReturn.res = "ok" <=> child.state # "none"
    /\ lastReturn.res # "ok" =>
         /\ lastReturn.res = "system_error"
         /\ lastReturn.what \in {"pipe", "sysconf", "fork"}
    /\ exitCode = 0 /\ stderrBuffer = <<>> /\ stdoutBuffer = <<>>

\* run() has returned normally; execve failed in the child and the write
\* of the task failed.
C18_Witness ==
  /\ ~wait
  /\ lastReturn = [op |-> "run", res |-> "ok", what |-> "none"]
  /\ child.how = "execve"
  /\ task["stdin"].state = "over"
  /\ task["stdin"].failed
  /\ future["stdin"].state = "exception"

\* C19: when fork fails run() raises the error of the system and has
\* started no background task; with the wait flag the exit code is then -2
\* and both buffers are empty, without it the result is what it was.
C19_ForkFailure ==
  (lastReturn.op = "run" /\ lastReturn.what = "fork") =>
    /\ lastReturn.res = "system_error"
    /\ rpc = "done"
    /\ child.state = "none"
    /\ \A id \in Tasks : task[id].state = "none" /\ future[id].state = "none"
    /\ pendingTasks = <<>> /\ threadsAtLoop = 0
    /\ ~running
    /\ exitCode = IF wait THEN exitCodeSystemError ELSE 0
    /\ stderrBuffer = <<>>
    /\ stdoutBuffer = <<>>

\* fork has failed in a run with the wait flag.
C19_Witness ==
  /\ wait
  /\ lastReturn = [op |-> "run", res |-> "system_error", what |-> "fork"]
  /\ exitCode = exitCodeSystemError

\* C20: with the wait flag, whenever run() raises because an operation of
\* the system failed (pipe, fork, execve, waitpid, the read of a reader,
\* the write of the writer), the exit code is -2 afterwards.
C20_SystemErrorRecorded ==
  (wait /\ rpc = "done" /\ lastReturn.op = "run"
        /\ lastReturn.res = "system_error") =>
    exitCode = exitCodeSystemError

(***************************************************************************)
(* Properties of the result of a run (Spec, RunSpec).                      *)
(***************************************************************************)
\* C21: with the wait flag, whenever run() raises after the child was
\* forked (execve, waitpid, a reader or the writer failed), this run has
\* overwritten the result before the exception reaches the caller: every
\* way out of the parent's branch that ends in an exception goes through
\* updateResultState.
C21_FailedRunOverwritesResult ==
  [][\A t \in Threads :
       (pc[t] = "waitpid" /\ pc'[t] # "waitpid" /\ pending'[t] # "none") =>
         (pc'[t] = "upd_lock" /\ updArgs'[t].set)
    ]_vars

C23_ResultReplacedTogether ==
  /\ [](exitCode = exitCodeSystemError =>
          (stdoutBuffer = <<>> /\ stderrBuffer = <<>>))
  /\ [][(\/ exitCode' # exitCode
          \/ stdoutBuffer' # stdoutBuffer
          \/ stderrBuffer' # stderrBuffer) =>
          \E t \in Threads :
            /\ pc[t] = "upd" /\ mutex = t /\ updArgs[t].set
            /\ wait /\ running
            /\ exitCode' = updArgs[t].exitCode
            /\ stdoutBuffer' = updArgs[t].stdoutBuffer
            /\ stderrBuffer' = updArgs[t].stderrBuffer
            /\ mutex' = NoThread
       ]_vars

\* After a request for capacity and an earlier call, a run has just stored
\* its result: exit code -2 and empty buffers, and the mutex is free.
C23_Witness ==
  \E t \in Threads :
    /\ pc[t] = "rel_lock" /\ mutex = NoThread
    /\ updArgs[t].set
    /\ stdoutCapacity > 0
    /\ calls = MaxCalls
    /\ exitCode = exitCodeSystemError
    /\ stdoutBuffer = <<>>

(***************************************************************************)
(* Properties of the ThreadPoolExecutor (PoolSpec).                        *)
(***************************************************************************)
Outcomes == {"value", "exception"}

C25_FifoDequeue ==
  /\ \A a, b \in PoolTasks :
       (a < b /\ task[b].state \notin {"none", "queued"}) =>
         task[a].state \notin {"none", "queued"}
  /\ \A i, j \in 1..Len(pendingTasks) :
       i < j => pendingTasks[i] < pendingTasks[j]
  /\ \A id \in PoolTasks :
       task[id].state = "queued" <=>
         \E i \in 1..Len(pendingTasks) : pendingTasks[i] = id

\* Tasks 1 and 2 have been dequeued and run, task 3, submitted last, is
\* still queued and a thread is on its way to take it.
C25_Witness ==
  /\ task[1].state = "running"
  /\ task[2].state = "running"
  /\ pendingTasks = <<3>>
  /\ threadsAtLoop = 1

\* C26: the idle count and the number of threads blocked in wait never
\* exceed maxIdleThreads; a worker whose task has returned leaves without
\* touching the pool when the idle count equals maxIdleThreads, and
\* otherwise counts itself idle and goes on: it takes the next queued task
\* or waits (or, the pool being shut down and the queue empty, takes itself
\* off the count again and leaves).
C26_IdleThreadsCapped ==
  /\ [](idleThreads <= maxIdleThreads /\ threadsWaiting <= maxIdleThreads)
  /\ [][\A id \in PoolTasks :
          (task[id].state = "returned" /\ task'[id].state = "over") =>
            IF idleThreads = maxIdleThreads
              THEN /\ UNCHANGED poolVars
                   /\ \A o \in PoolTasks \ {id} : task'[o] = task[o]
              ELSE IF pendingTasks # <<>>
                THEN /\ idleThreads' = idleThreads + 1
                     /\ task'[Head(pendingTasks)].state = "running"
                     /\ pendingTasks' = Tail(pendingTasks)
                ELSE IF shutdown
                  THEN UNCHANGED poolVars
                  ELSE /\ idleThreads' = idleThreads + 1
                       /\ threadsWaiting' = threadsWaiting + 1]_vars

\* Task 1 waited for task 2, so two workers ran them side by side; with a
\* maximum of one idle thread and no shutdown, one worker is left, idle and
\* waiting, and the other one has left at the cap.
C26_Witness ==
  /\ maxIdleThreads = 1 /\ ~shutdown
  /\ task[1].waitsFor = 2
  /\ task[1].state = "over" /\ task[2].state = "over"
  /\ idleThreads = 1 /\ threadsWaiting = 1 /\ threadsAtLoop = 0

\* No thread of the pool is left: none at the head of the loop, none
\* blocked in wait, none inside or just behind a task, nothing queued.
AllWorkersGone ==
  /\ threadsAtLoop = 0
  /\ threadsWaiting = 0
  /\ pendingTasks = <<>>
  /\ \A id \in PoolTasks : task[id].state \in {"none", "over"}

\* C27: setting the shutdown flag and notifying removes no task and changes
\* no future; after it every task that was queued or running is still run to
\* its end with an outcome in its future, and under fair scheduling the pool
\* reaches, and stays in, the state in which every worker has left: no
\* thread remains blocked in wait.
C27_ShutdownDrains ==
  /\ [][(shutdown' # shutdown \/ (shutdown /\ threadsWaiting' < threadsWaiting))
          => (/\ shutdown'
              /\ UNCHANGED <<task, future, pendingTasks>>)]_vars
  /\ \A id \in PoolTasks :
       (shutdown /\ task[id].state \in {"queued", "running"}) ~>
         (task[id].state = "over" /\ future[id].state \in Outcomes)
  /\ [](shutdown => <>[](AllWorkersGone /\ shutdown))

\* The flag is set while a thread is blocked in wait, not yet notified, and
\* another one is on its way to the task that is queued.
C27_Witness ==
  /\ shutdown
  /\ threadsWaiting = 1
  /\ threadsAtLoop = 1
  /\ pendingTasks = <<3>>

\* C28: the end of a task, by return or by exception, changes the future of
\* that task and nothing else, neither another future nor the pool, and
\* leaves its worker in front of the end of the loop body, which it can
\* always enter; the idle count stays the number of threads that wait or are
\* spare on their way to the head of the loop, and is never negative.
C28_ExceptionStaysInFuture ==
  /\ [][\A id \in PoolTasks :
          (task[id].state = "running" /\ task'[id].state # "running") =>
            /\ task'[id].state = "returned"
            /\ future[id].state = "pending"
            /\ future'[id].state \in Outcomes
            /\ \A o \in PoolTasks \ {id} :
                 future'[o] = future[o] /\ task'[o] = task[o]
            /\ UNCHANGED poolVars]_vars
  /\ [](\A id \in PoolTasks :
          task[id].state = "returned" => ENABLED workerRelock(id))
  /\ [][\A id \in PoolTasks :
          future[id].state \in Outcomes => future'[id] = future[id]]_vars
  /\ [](/\ idleThreads >= 0
        /\ idleThreads = threadsWaiting + threadsAtLoop - Len(pendingTasks))

\* Task 1 raised; its worker counted itself idle and took task 2, which
\* runs, and the thread created for task 2 is on its way as a spare.
C28_Witness ==
  /\ future[1].state = "exception" /\ task[1].state = "over"
  /\ task[2].state = "running" /\ future[2].state = "pending"
  /\ idleThreads = 1 /\ threadsAtLoop = 1 /\ threadsWaiting = 0

(***************************************************************************)
(* Properties of the pipe classes (ChannelSpec).                           *)
(***************************************************************************)
\* C29: on every pipe object, of either class and of every capacity or
\* buffer, an operation that is invoked after an earlier invocation of the
\* hand-off or of the start of the I/O on that object ends with a logic
\* error.
C29_SingleUse ==
  [][\A p \in Tasks :
       (pipes'[p].used = pipes[p].used + 1 /\ pipes[p].used >= 1) =>
         lastReturn'.res = "logic_error"]_vars

(***************************************************************************)
(* Properties of run() before the fork (PreForkSpec).                      *)
(***************************************************************************)
\* run() of thread t fails in this step between the snapshot and the fork:
\* a pipe constructor, sysconf or fork itself has failed.
FailsBeforeFork(t) ==
  /\ pc[t] = "prefork"
  /\ IF wait THEN pc'[t] \in {"rel_lock", "upd_lock"}
             ELSE pc'[t] = "idle" /\ lastReturn'.res = "system_error"

\* C30: a run() that is rejected because a run is in flight raises and
\* changes neither the flag of that run nor any child, descriptor or task;
\* a run() that fails between the snapshot and the fork has, with that
\* step, closed every descriptor it got from pipe(), forked no child and
\* submitted no task, and raises; and when a run that forked no child
\* leaves through the destructor of its guard it raises and the running
\* flag is clear.
C30_FailureBeforeFork ==
  [][\A t \in Threads :
       /\ (pc[t] = "guard" /\ pc'[t] = "idle") =>
            /\ lastReturn' = [op |-> "run", res |-> "invalid_argument"]
            /\ running /\ running'
            /\ UNCHANGED <<child, pipes, task, future, poolVars>>
       /\ FailsBeforeFork(t) =>
            /\ pipes'[t].open = {} /\ pipes'[t].objs = NoObjects
            /\ pipes'[t].handed = {} /\ pipes'[t].tasks = 0
            /\ child'[t] = NoChild
            /\ UNCHANGED <<task, future, poolVars>>
            /\ wait => pending'[t] = "system_error"
            /\ ~wait => ~running'
       /\ (pc[t] = "rel" /\ pc'[t] = "idle" /\ child[t] = NoChild) =>
            /\ lastReturn' = [op |-> "run", res |-> "system_error"]
            /\ ~running'
            /\ pipes[t].open = {}
     ]_vars

\* A wait-mode run has failed after the pipes for stdin and stderr were
\* created: in the constructor of the stdout pipe, or in sysconf; the four
\* descriptors are closed, no child exists and the guard still holds the
\* flag.
C30_Witness ==
  \E t \in Threads :
    /\ wait /\ running
    /\ pc[t] = "rel_lock" /\ pending[t] = "system_error"
    /\ Cardinality(pipes[t].created) = 4
    /\ snap[t].stdoutCapacity > 0
    /\ pipes[t].open = {}
    /\ child[t] = NoChild

\* The worker threads that run no task and will look at the queue: those
\* created or woken up and on their way to the head of the loop, and those
\* blocked in wait.
WorkersLooking == threadsAtLoop + threadsWaiting

C40_EmptyPayloadOnlyWaits ==
  (~wait /\ stdinBuffer = <<>>) =>
    /\ ~hasPipe("stdin")
    /\ pipes["stdin"] = NoPipe
    /\ ~task["stdin"].failed
    /\ future["stdin"].state # "exception"

\* A step of the stdin writer task of a run that has a stdin pipe: data is
\* the payload the task was given, total the number of bytes it has written.
WriterEnds == task["stdin"].state = "running" /\ task'["stdin"].state = "over"
BytesAppended == Len(pipes'["stdin"].buf) - Len(pipes["stdin"].buf)
ClosesWriteEnd ==
  "parent" \in pipes["stdin"].w /\ "parent" \notin pipes'["stdin"].w

C39_ResultRecordedBeforeRelease ==
  [][\A t \in Threads :
       /\ (pc[t] = "waitpid" /\ pc'[t] # "waitpid") =>
            pc'[t] = "upd_lock" /\ updArgs'[t].set
       /\ pc[t] = "upd" => running /\ updArgs[t].set
       /\ (wait /\ pc[t] = "rel" /\ ~running' /\ updArgs[t].set) =>
            /\ running
            /\ exitCode = updArgs[t].exitCode
            /\ stdoutBuffer = updArgs[t].stdoutBuffer
            /\ stderrBuffer = updArgs[t].stderrBuffer
    ]_vars

\* The step in which the caller tests childProcessStatus->execveStatus:
\* waitpid has returned the child.
FailedAt(ret, what) == ret.op = "run" /\ ret.what = what
ReadsSegment ==
  /\ rpc = "waitpid"
  /\ rpc' # "waitpid"
  /\ ~FailedAt(lastReturn', "waitpid")

\* C35: the shared exec-status segment is written only by the child and only
\* after its execve failed, and the parent reads it only after waitpid
\* returned this child: the child is terminated in every step in which the
\* parent tests the segment, the run goes on according to what the child
\* stored, and the segment is zero whenever the exec succeeded.
C35_SegmentWrittenThenRead ==
  [][/\ child'.execveStatus # child.execveStatus =>
          \/ /\ child.state = "running" /\ ~child.execOk
             /\ child'.state = "zombie"
             /\ child'.execveStatus # 0
          \/ /\ rpc = "idle" /\ child'.state = "running"
             /\ child'.execveStatus = 0
     /\ ReadsSegment =>
          /\ child.state = "zombie"
          /\ child'.execveStatus = child.execveStatus
          /\ (child.execveStatus # 0) <=> FailedAt(lastReturn', "execve")
     /\ child.execOk => child.execveStatus = 0
     /\ (rpc = "get" \/ FailedAt(lastReturn, "execve")) => child.state = "reaped"
    ]_vars

\* The exec failed, the child stored the status and exited, and the parent
\* found it after waitpid.
C35_Witness ==
  /\ ~child.execOk
  /\ child.execveStatus = -1
  /\ child.state = "reaped"
  /\ rpc = "done"
  /\ FailedAt(lastReturn, "execve")

RunsStarted == Cardinality(PoolTasks \ Unsubmitted)
ExternalTriggers == calls

\* C38: for a wait-mode command driven through a run record without the
\* wait option, the processing requested by the completion callback only
\* completes the finished run and never starts a new run, and the number of
\* runs started is at most the number of externally triggered processings.
C38_CallbackOnlyCompletes ==
  [][(wait /\ ~record.waitOption) =>
       /\ \A t \in Threads :
            (/\ pc[t] = "processRecord" /\ pc'[t] # "processRecord"
             /\ call[t].by = "callback") =>
              /\ Unsubmitted' = Unsubmitted
              /\ asyncExecutionFuture' = asyncExecutionFuture
              /\ pc'[t] = "get" => record'.val = 0
       /\ RunsStarted <= ExternalTriggers
    ]_vars

\* The run that the record has started is under way: its task is queued or
\* has not left run() yet.
RunExecuting ==
  /\ asyncExecutionFuture # 0
  /\ task[asyncExecutionFuture].state \in {"queued", "running"}
  /\ task[asyncExecutionFuture].at \in {"call", "run"}

\* The run of task id is over, and the record has been processed since: its
\* value is 0 and the future of the task has been consumed by get().
RunCompleted(id) ==
  /\ task[id].state \in {"returned", "over"}
  /\ asyncExecutionFuture # id
  /\ record.val = 0

\* C33: while a run started through a run record of a wait-mode command is
\* still executing, processing that record again starts no second run and
\* raises no error; its only effect is to restore the record's value to 1.
\* When the run has finished, the record is processed again and its value
\* becomes 0.
C33_ProcessingWhileRunning ==
  /\ [][\A t \in Threads :
          (/\ wait /\ RunExecuting
           /\ pc[t] = "processRecord" /\ pc'[t] # "processRecord") =>
            /\ record' = [record EXCEPT !.val = 1, !.rval = 1]
            /\ pc'[t] = "idle"
            /\ lastReturn'.res = "ok"
            /\ UNCHANGED <<task, future, pendingTasks, asyncExecutionFuture,
                           runComplete, processCallback, running>>
      ]_vars
  /\ \A id \in PoolTasks :
       (wait /\ task[id].state = "running" /\ task[id].at = "exchange")
         ~> RunCompleted(id)

\* The record was processed a second time while its run was executing: no
\* second run was started and the value is 1.
C33_Witness ==
  /\ wait
  /\ RunExecuting
  /\ task[1].at = "run"
  /\ calls = 2
  /\ lastReturn = [op |-> "processRecord", res |-> "ok"]
  /\ record.val = 1
  /\ Unsubmitted = PoolTasks \ {1}
  /\ \A t \in Threads : pc[t] = "idle"

\* What a standard stream of the executed program has to refer to.
BoundTo(std) ==
  IF std = STDIN_FILENO
    THEN (IF stdinBuffer # <<>> THEN "stdin.r" ELSE "null")
  ELSE IF std = STDOUT_FILENO
    THEN (IF stdoutCapacity # 0 THEN "stdout.w" ELSE "null")
    ELSE (IF stderrCapacity # 0 THEN "stderr.w" ELSE "null")

\* C34: in the child, before the exec, each of the descriptors 0, 1 and 2 is
\* bound to the corresponding channel endpoint or to the null device, and
\* every other descriptor up to the queried limit is closed, whatever
\* descriptors were open in the parent at fork time (no system call of the
\* child failing).
C34_ChildDescriptors ==
  (rpc = "execve" /\ failuresLeft = MaxFailures) =>
    /\ \A std \in StdFds : fdTable[std] = BoundTo(std)
    /\ \A fd \in Fds \ StdFds : fdTable[fd] = "closed"

\* The descriptors that the constructors of the run got from pipe().
CreatedFds == UNION {pipes[p].created : p \in Tasks}

\* run() has ended and none of its tasks is queued or running.
RunAndTasksOver ==
  /\ rpc = "done"
  /\ \A id \in Tasks : task[id].state \in {"none", "over"}

\* C31: at any time no descriptor has been closed twice by the run and its
\* tasks, no descriptor that the run did not create has been closed, and a
\* created descriptor is open exactly as long as it was not closed; once
\* run() has ended, on whatever path, and its tasks are over, every
\* descriptor that the run created has been closed exactly once and is not
\* open in the parent.
C31_DescriptorsClosedOnce ==
  /\ \A fd \in Fds :
       closeCalls[fd] <= (IF fd \in CreatedFds THEN 1 ELSE 0)
  /\ \A fd \in CreatedFds : (closeCalls[fd] = 0) <=> (fdTable[fd] # "closed")
  /\ RunAndTasksOver =>
       \A fd \in CreatedFds : closeCalls[fd] = 1 /\ fdTable[fd] = "closed"

\* A run with the three pipes whose tasks all took over a descriptor and
\* that was left by the exception of a reader: each of the six descriptors
\* has been closed once.
C31_Witness ==
  /\ RunAndTasksOver
  /\ Cardinality(CreatedFds) = 6
  /\ lastReturn.op = "run"
  /\ lastReturn.res = "system_error"
  /\ lastReturn.what = "read"
  /\ \A id \in Tasks : task[id].state = "over" /\ task[id].fd \in CreatedFds
  /\ \A fd \in CreatedFds : closeCalls[fd] = 1

====
